---- MODULE Spec2Model ----
(***************************************************************************)
(* Model of the RPC transport-and-dispatch core of libvirt:                *)
(*   src/src/rpc/virnetserver.c  (Server: accept, dispatch, reaping pass,  *)
(*                                exec-restart)                            *)
(*   src/src/rpc/virnetsocket.c  (Socket: write path with SASL layering,   *)
(*                                UNIX listen/close/dispose, serialising)  *)
(*                                                                         *)
(* The specifications of the module:                                       *)
(*   Spec        the Server with its worker pool and the reaping pass      *)
(*   SpecRestart the Server through accepts, reaps and exec-restarts       *)
(*   SpecWrite   one caller writing a buffer through virNetSocketWrite     *)
(*               (FairSpecWrite adds the fairness of the wire)             *)
(*   SpecUnix    sockets on UNIX paths: listen, accept, close, dispose     *)
(***************************************************************************)
EXTENDS Integers, Sequences, FiniteSets, TLC

\* ---------------------------------------------------------------- bounds
MaxConns == 1          \* accept attempts (Spec)
MaxMsgs == 1           \* inbound frames read by the reactor
MaxThreads == 1        \* worker threads that the pool runs
MaxAccepts == 2        \* accept attempts (SpecRestart)
MaxServices == 1       \* services registered with the Server
MaxRestarts == 1       \* exec-restarts in one behaviour
MaxClientsCfg == 1     \* largest configured max_clients
MaxLen == 3            \* longest buffer offered to virNetSocketWrite
SaslMaxBuf == 2        \* virNetSASLSessionGetMaxBufSize of the session
MaxSocks == 2          \* Socket objects (SpecUnix)
MaxEintr == 2          \* interrupted system calls within one Read or Write
MaxRunConns == 3       \* Connections accepted while the run loop is observed
MaxInhibit == 1        \* shutdown inhibitions held at once
MaxCands == 3          \* addresses that getaddrinfo resolves a name to
MaxAdds == 3           \* calls of virNetSocketAddIOCallback on one Socket
MaxSigAdds == 2        \* calls of virNetServerAddSignalHandler
MaxDeliveries == 3     \* signals delivered to the process
PipeCap == 2           \* records the signal pipe holds before write fails
MaxInhThreads == 2     \* threads that call Add/RemoveShutdownInhibition
MaxInhCalls == 3       \* calls of virNetServerAddShutdownInhibition
MaxCmds == 3           \* calls of virNetSocketNewConnectCommand
MaxRegCalls == 3       \* calls of virNetServerAddService and AddClient
MaxRegObjs == 2        \* Services, and Connections, that are registered
MaxIhAdds == 4         \* calls of virNetServerAddShutdownInhibition
MaxLkWorkers == 1      \* worker threads that take the locks
MaxLkConns == 2        \* Connections whose lock is taken
MaxLkFrames == 2       \* frames that the dispatcher is called for

Null == 0              \* the NULL pointer

Clients == 1..(IF MaxConns > MaxAccepts THEN MaxConns ELSE MaxAccepts)
Msgs == 1..MaxMsgs
Threads == 1..MaxThreads

\* ------------------------------------------------------------ conversions
\* unsigned int / int of the JSON number helpers: 32 bits, kept as two
\* 16-bit halves (x mod 2^32 = hi * 2^16 + lo)
Half == 256 * 256
ToUint(x) == [hi |-> (x \div Half) % Half, lo |-> x % Half]
ToInt(u) == (IF u.hi >= Half \div 2 THEN u.hi - Half ELSE u.hi) * Half + u.lo
\* unsigned int widened to size_t
ToSize(u) == u.hi * Half + u.lo

\* ------------------------------------------------------------------ state
VARIABLES
    \* struct _virNetServer
    workers,            \* srv->workers: the pool, or NoPool for NULL
    nclients_max,       \* srv->nclients_max
    keepaliveInterval,  \* srv->keepaliveInterval
    keepaliveCount,     \* srv->keepaliveCount
    keepaliveRequired,  \* srv->keepaliveRequired
    services,           \* srv->services[0..nservices-1]
    programs,           \* srv->programs[0..nprograms-1]
    progRefs,           \* reference count of each Program object
    clients,            \* srv->clients[0..]
    nclients,           \* srv->nclients
    \* the Connection objects
    client,             \* id -> the virNetServerClient object
    nextClient,         \* id of the next accepted transport
    \* frames and jobs
    msg,                \* id -> inbound frame and what was done for it
    nextMsg,
    jobs,               \* jobs queued in the worker pool (frame ids)
    running,            \* thread -> frame id of the job it executes, or Null
    crashed,            \* the process has died
    \* exec-restart
    restarts,           \* exec-restarts attempted
    preExec,            \* the last exec-restart: the Server before and after
    \* a Socket that is written to, its caller and its wire
    saslSession,        \* sock->saslSession != NULL
    saslEncoded,        \* sock->saslEncoded, <<>> for NULL
    saslEncodedOffset,  \* sock->saslEncodedOffset
    saslEncodedLength,  \* sock->saslEncodedLength
    wbuf,               \* the buffer that the caller offers
    woff,               \* the bytes of it that virNetSocketWrite accepted
    wire,               \* the bytes that the wire accepted, in order
    wstate,             \* "idle", "writing", "done" or "error"
    wzero,              \* some call has returned 0
    \* Sockets and the filesystem
    sock,               \* id -> the virNetSocket object
    fs,                 \* the paths that exist in the filesystem
    uop,                \* the last Socket operation and its unlink calls
    \* one call of virNetSocketReadWire or virNetSocketWriteWire
    io,                 \* the call, its system calls so far and its result
    \* virNetServerRun and the auto-shutdown timer
    autoShutdownTimeout,        \* srv->autoShutdownTimeout (0: none)
    autoShutdownInhibitions,    \* srv->autoShutdownInhibitions
    quit,                       \* srv->quit
    quitBy,             \* who set srv->quit last: "none", "Quit", "timer"
    timerActive,        \* the local of virNetServerRun: the timer is armed
    pc,                 \* virNetServerRun: "idle", "events", "returned"
    why,                \* why virNetServerRun returned
    last,               \* the last operation on the run loop's state
    \* one call of virNetSocketNewListenTCP or virNetSocketNewConnectTCP
    tcp,                \* its inputs and what it returned and left open
    \* one call of virNetSocketNewConnectUNIX with its retries
    cu,                 \* its inputs; its attempts; spawns and delays; what it returned
    \* a Socket and its event registrations
    ev,                 \* sock->watch; func; opaque; ff; its reference count; the handles of the event loop
    \* signals of the Server
    sg,                 \* signal handlers of the Server; the self-pipe; deliveries and invocations
    \* threads that inhibit the shutdown
    inh,                \* the Server lock; the counter; threads in Add/Remove
    \* connections through a spawned command
    cc,                 \* descriptors of the process; its children; Sockets made by NewConnectCommand
    \* registration of Services and Connections
    reg,                \* srv->services and srv->clients under registrations that may fail
    \* reads from a Socket
    rd,                 \* saslDecoded and its offset and length; the bytes that arrived; what Read returned
    \* exec-restart of one Socket
    px,                 \* a Socket; its sub-document; the Socket rebuilt from it
    \* external shutdown inhibition
    ih,                 \* the inhibit call and descriptor of the Server
    \* locks
    lk                  \* the Server lock and the Connection locks and the threads

srvVars == <<workers, nclients_max, keepaliveInterval, keepaliveCount,
             keepaliveRequired, services, programs, progRefs, clients,
             nclients, client, nextClient, msg, nextMsg, jobs, running,
             crashed, restarts, preExec>>

wrVars == <<saslSession, saslEncoded, saslEncodedOffset, saslEncodedLength,
            wbuf, woff, wire, wstate, wzero>>

unVars == <<sock, fs, uop>>

sockVars == <<wrVars, unVars>>

ioVars == <<io>>

runVars == <<autoShutdownTimeout, autoShutdownInhibitions, quit, quitBy,
             timerActive, pc, why, last>>

tcpVars == <<tcp>>

lkVars == <<lk>>

ihVars == <<ih>>

pxVars == <<px>>

rdVars == <<rd>>

regVars == <<reg>>

ccVars == <<cc>>

inhVars == <<inh>>

sgVars == <<sg>>

evVars == <<ev>>

cuVars == <<cu>>

\* what the actions of one part of the model leave alone
notSrvVars == <<sockVars, ioVars, runVars, tcpVars, cuVars, evVars, sgVars, inhVars, ccVars, regVars, rdVars, pxVars, ihVars, lkVars>>
notWrVars == <<unVars, ioVars, runVars, tcpVars, cuVars, evVars, sgVars, inhVars, ccVars, regVars, rdVars, pxVars, ihVars, lkVars>>
notUnVars == <<wrVars, ioVars, runVars, tcpVars, cuVars, evVars, sgVars, inhVars, ccVars, regVars, rdVars, pxVars, ihVars, lkVars>>
notIoVars == <<wrVars, unVars, runVars, tcpVars, cuVars, evVars, sgVars, inhVars, ccVars, regVars, rdVars, pxVars, ihVars, lkVars>>
notTcpVars == <<srvVars, sockVars, ioVars, runVars, cuVars, evVars, sgVars, inhVars, ccVars, regVars, rdVars, pxVars, ihVars, lkVars>>

notCuVars == <<srvVars, wrVars, unVars, ioVars, runVars, tcpVars, evVars, sgVars, inhVars, ccVars, regVars, rdVars, pxVars, ihVars, lkVars>>
notEvVars == <<srvVars, wrVars, unVars, ioVars, runVars, tcpVars, cuVars, sgVars, inhVars, ccVars, regVars, rdVars, pxVars, ihVars, lkVars>>
notSgVars == <<srvVars, wrVars, unVars, ioVars, runVars, tcpVars, cuVars, evVars, inhVars, ccVars, regVars, rdVars, pxVars, ihVars, lkVars>>
notInhVars == <<srvVars, wrVars, unVars, ioVars, runVars, tcpVars, cuVars, evVars, sgVars, ccVars, regVars, rdVars, pxVars, ihVars, lkVars>>
notCcVars == <<srvVars, wrVars, unVars, ioVars, runVars, tcpVars, cuVars, evVars, sgVars, inhVars, regVars, rdVars, pxVars, ihVars, lkVars>>
notRegVars == <<srvVars, wrVars, unVars, ioVars, runVars, tcpVars, cuVars, evVars, sgVars, inhVars, ccVars, rdVars, pxVars, ihVars, lkVars>>
notRdVars == <<srvVars, wrVars, unVars, ioVars, runVars, tcpVars, cuVars, evVars, sgVars, inhVars, ccVars, regVars, pxVars, ihVars, lkVars>>
notPxVars == <<srvVars, wrVars, unVars, ioVars, runVars, tcpVars, cuVars, evVars, sgVars, inhVars, ccVars, regVars, rdVars, ihVars, lkVars>>
notIhVars == <<srvVars, wrVars, unVars, ioVars, runVars, tcpVars, cuVars, evVars, sgVars, inhVars, ccVars, regVars, rdVars, pxVars, lkVars>>
notLkVars == <<srvVars, wrVars, unVars, ioVars, runVars, tcpVars, cuVars, evVars, sgVars, inhVars, ccVars, regVars, rdVars, pxVars, ihVars>>
vars == <<srvVars, wrVars, unVars, ioVars, runVars, tcpVars, cuVars, evVars, sgVars, inhVars, ccVars, regVars, rdVars, pxVars, ihVars, lkVars>>

\* srv->workers == NULL
NoPool == [exists |-> FALSE, minWorkers |-> 0, maxWorkers |-> 0,
           prioWorkers |-> 0]

\* A dispatcher that takes the pool for granted
HasPoolAlways == TRUE

\* virNetServerDispatchNewMessage, line 231: if (srv->workers)
HasPool == workers.exists

\* ------------------------------------------------------ Connection objects
\* An accept attempt that created no Connection; ret is what
\* virNetServerDispatchNewClient returned for the attempt
NoClient == [created |-> FALSE, refs |-> 0, disposed |-> FALSE,
             wantClose |-> FALSE, closed |-> FALSE, dispatcher |-> FALSE,
             keepalive |-> <<>>, tls |-> FALSE, sasl |-> FALSE,
             fdOpen |-> FALSE, cloexec |-> TRUE, ret |-> 0]

\* virNetServerClientNew: one reference, owned by the caller; the transport
\* that was accepted is open and close-on-exec (virNetSocketNew)
virNetServerClientNew ==
    [NoClient EXCEPT !.created = TRUE, !.refs = 1, !.fdOpen = TRUE]

virObjectRef(o) == [o EXCEPT !.refs = @ + 1]

\* virObjectUnref: the last reference disposes the object, and the disposal
\* of a Connection releases its Socket (descriptor closed)
virObjectUnref(o) ==
    IF o.refs <= 1
    THEN [o EXCEPT !.refs = 0, !.disposed = TRUE, !.fdOpen = FALSE]
    ELSE [o EXCEPT !.refs = @ - 1]

\* virNetServerClientClose: the Connection is closed, its Socket released
\* (virNetSocketDispose: descriptor closed, sessions released)
virNetServerClientClose(o) ==
    [o EXCEPT !.closed = TRUE, !.fdOpen = FALSE, !.tls = FALSE,
              !.sasl = FALSE]

virNetServerClientWantClose(o) == o.wantClose
virNetServerClientIsClosed(o) == o.closed

\* virNetServerClientSetDispatcher + virNetServerClientInitKeepAlive
InstallDispatcher(o, interval, count) ==
    [o EXCEPT !.dispatcher = TRUE, !.keepalive = <<interval, count>>]

\* ------------------------------------------------------------ accept path
\* A capacity test that is off by one: it admits a Connection when the
\* collection is already full
AddClientFullOffByOne(n, max) == n > max

\* virNetServerAddClient, line 270: the capacity test
AddClientFull(n, max) == n >= max

\* virNetServerAddClient: the result for a new Connection when the
\* collection holds n of max, given whether virNetServerClientInit and
\* VIR_EXPAND_N succeed
AddClientResult(n, max, initOk, expandOk) ==
    IF AddClientFull(n, max) THEN "toomany"
    ELSE IF ~initOk THEN "initfail"
    ELSE IF ~expandOk THEN "oom"
    ELSE "ok"

\* virNetServerAddClient on success, lines 284-292: the Connection with the
\* Server's reference taken, dispatcher and keepalive installed
AddClientObj(o, interval, count) ==
    InstallDispatcher(virObjectRef(o), interval, count)

\* A rejection that neither closes the Connection nor drops the reference
RejectClientLeak(o) == [o EXCEPT !.ret = -1]

\* virNetServerDispatchNewClient, lines 320-324: what is done with the
\* Connection that virNetServerAddClient refused, and the -1 returned
RejectClient(o) ==
    [virObjectUnref(virNetServerClientClose(o)) EXCEPT !.ret = -1]

\* virNetServerDispatchNewClient: the accept callback of Service s
virNetServerDispatchNewClient(s, newOk, initOk, expandOk) ==
    /\ ~crashed
    /\ nextClient \in DOMAIN client
    /\ s \in 1..Len(services)
    /\ nextClient' = nextClient + 1
    /\ LET c == nextClient
           o == virNetServerClientNew
           r == AddClientResult(nclients, nclients_max, initOk, expandOk)
       IN IF ~newOk
          THEN /\ client' = [client EXCEPT ![c].ret = -1]
               /\ UNCHANGED <<clients, nclients>>
          ELSE IF r = "ok"
          THEN /\ clients' = Append(clients, c)
               /\ nclients' = nclients + 1
               /\ client' = [client EXCEPT ![c] = virObjectUnref(
                       AddClientObj(o, keepaliveInterval, keepaliveCount))]
          ELSE /\ client' = [client EXCEPT ![c] = RejectClient(o)]
               /\ UNCHANGED <<clients, nclients>>
    /\ UNCHANGED <<workers, nclients_max, keepaliveInterval, keepaliveCount,
                   keepaliveRequired, services, programs, progRefs, msg,
                   nextMsg, jobs, running, crashed, restarts, preExec>>
    /\ UNCHANGED notSrvVars

\* A transport error, an end of stream or a keepalive timeout on a live
\* Connection marks it as wanting close (done by the Connection itself)
ClientWantsClose(c) ==
    /\ ~crashed
    /\ client[c].created /\ ~client[c].disposed
    /\ ~client[c].wantClose /\ ~client[c].closed
    /\ client' = [client EXCEPT ![c].wantClose = TRUE]
    /\ UNCHANGED <<workers, nclients_max, keepaliveInterval, keepaliveCount,
                   keepaliveRequired, services, programs, progRefs, clients,
                   nclients, nextClient, msg, nextMsg, jobs, running,
                   crashed, restarts, preExec>>
    /\ UNCHANGED notSrvVars

\* ----------------------------------------------------------- reaping pass
RemoveAt(seq, i) == SubSeq(seq, 1, i - 1) \o SubSeq(seq, i + 1, Len(seq))

\* A pass that closes nothing
ReapCloseNever(o) == o

\* virNetServerRun, lines 1133-1134: close what wants close
ReapClose(o) ==
    IF virNetServerClientWantClose(o) THEN virNetServerClientClose(o) ELSE o

\* virNetServerRun, lines 1128-1149: the loop over srv->clients with its
\* "goto reprocess", on the state st = [clients, nclients, client], from
\* index i (1-based); x is the value of st, taken once
RECURSIVE Reprocess(_, _)
Reprocess(st, i) ==
    CHOOSE r \in {
        IF i > x.nclients THEN x
        ELSE LET c == x.clients[i]
                 o == ReapClose(x.client[c])
             IN IF virNetServerClientIsClosed(o)
                THEN Reprocess([clients |-> RemoveAt(x.clients, i),
                                nclients |-> IF x.nclients > 1
                                             THEN x.nclients - 1 ELSE 0,
                                client |-> [x.client EXCEPT
                                                ![c] = virObjectUnref(o)]], 1)
                ELSE Reprocess([x EXCEPT !.client[c] = o], i + 1)
        : x \in {st}} : TRUE

\* the reaping pass that ends an iteration of the run loop; it is a step
\* when some Connection is reaped
ReapPass ==
    /\ ~crashed
    /\ LET st == Reprocess([clients |-> clients, nclients |-> nclients,
                            client |-> client], 1)
       IN /\ st.clients # clients
          /\ clients' = st.clients
          /\ nclients' = st.nclients
          /\ client' = st.client
    /\ UNCHANGED <<workers, nclients_max, keepaliveInterval, keepaliveCount,
                   keepaliveRequired, services, programs, progRefs,
                   nextClient, msg, nextMsg, jobs, running, crashed,
                   restarts, preExec>>
    /\ UNCHANGED notSrvVars

\* ------------------------------------------------------- programs, frames
ProgramIds == {1, 2}
Keys == {1, 2}             \* routing keys; Program 1 does not match 2
MsgTypes == {"CALL", "CALL_WITH_FDS", "MESSAGE"}

\* virNetServerProgramMatches: Program 1 serves key 1, Program 2 keys 1, 2
virNetServerProgramMatches(p, key) ==
    \/ p = 1 /\ key = 1
    \/ p = 2 /\ key \in {1, 2}

\* virNetServerProgramGetPriority: the priority that the Program gives the
\* procedure of a frame (Program 1: its procedures are priority ones)
virNetServerProgramGetPriority(p) == IF p = 1 THEN 1 ELSE 0

\* A search in which the last registered Program that matches wins
MatchLastFrom(i, key) ==
    LET S == {j \in i..Len(programs) :
                 virNetServerProgramMatches(programs[j], key)}
    IN IF S = {} THEN Null
       ELSE programs[CHOOSE j \in S : \A k \in S : k <= j]

\* virNetServerDispatchNewMessage, lines 224-229: first match in
\* registration order, NULL if none
RECURSIVE MatchFrom(_, _)
MatchFrom(i, key) ==
    IF i > Len(programs) THEN Null
    ELSE IF virNetServerProgramMatches(programs[i], key) THEN programs[i]
    ELSE MatchFrom(i + 1, key)

MatchProgram(key) == MatchFrom(1, key)

\* virNetServerDispatchNewMessage, lines 216 and 241-245: the priority of
\* the Job, 0 unless a Program matched
JobPriority(prog) ==
    IF prog # Null THEN virNetServerProgramGetPriority(prog) ELSE 0

\* A frame: its Connection, its kind, the Program matched for it, what was
\* handed to the Connection for it, and the result of its processing; the
\* references of the Connection and of the Program that were taken for its
\* processing and not yet released (held, progHeld), and how many times the
\* frame was freed
NoMsg == [status |-> "none", client |-> Null, type |-> "", key |-> Null,
          prog |-> Null, priority |-> 0, sent |-> <<>>, ret |-> 0,
          held |-> 0, progHeld |-> 0, freed |-> 0]

\* virNetServerAddProgram (Programs are registered before the run loop)
virNetServerAddProgram(p, expandOk) ==
    /\ ~crashed
    /\ nextClient = 1 /\ nextMsg = 1 /\ restarts = 0
    /\ \A i \in 1..Len(programs) : programs[i] # p
    /\ expandOk
    /\ programs' = Append(programs, p)
    /\ progRefs' = [progRefs EXCEPT ![p] = @ + 1]
    /\ UNCHANGED <<workers, nclients_max, keepaliveInterval, keepaliveCount,
                   keepaliveRequired, services, clients, nclients, client,
                   nextClient, msg, nextMsg, jobs, running, crashed,
                   restarts, preExec>>
    /\ UNCHANGED notSrvVars

\* A test of the kind that forgets the calls that carry descriptors
IsCallKindPlain(type) == type = "CALL"

\* virNetServerProcessMsg, line 154: the kinds that expect a reply
IsCallKind(type) == type \in {"CALL", "CALL_WITH_FDS"}

\* An unmatched one-way frame that is dropped with nothing handed on
UnmatchedSendDrop(type) ==
    IF IsCallKind(type) THEN <<"unknown_program_error">> ELSE <<>>

\* virNetServerProcessMsg, lines 149-171: what is handed to the Connection
\* for a frame that no Program matched
UnmatchedSend(type) ==
    IF IsCallKind(type)
    THEN <<"unknown_program_error">>   \* virNetServerProgramUnknownError
    ELSE <<"dummy_reply">>             \* cleared, retyped REPLY, SendMessage

\* virNetServerProcessMsg: what is handed to the Connection for the frame,
\* and the result, given the result ok of the one call that it makes
virNetServerProcessMsg(prog, type, ok) ==
    [ret |-> IF ok THEN 0 ELSE -1,
     sent |-> IF prog = Null THEN UnmatchedSend(type)
              ELSE <<"program_dispatch">>]

\* An unref that releases nothing
UnrefProgNever(refs, p) == refs

\* virObjectUnref(prog) and virObjectRef(prog), on the count of Program p
UnrefProg(refs, p) == IF p = Null THEN refs ELSE [refs EXCEPT ![p] = @ - 1]
RefProg(refs, p) == IF p = Null THEN refs ELSE [refs EXCEPT ![p] = @ + 1]

\* virNetServerDispatchNewMessage, lines 239-240: what building the Job
\* does to its Connection (the pointer is stored, no reference is taken)
JobRefClient(o) == o

\* The reader of the Connection, on a failed dispatch: the frame is freed
\* and the Connection marked as wanting close
DispatchFailed(o) == [o EXCEPT !.wantClose = TRUE]

\* virNetServerDispatchNewMessage: the dispatcher of Connection c for one
\* inbound frame
virNetServerDispatchNewMessage(c, key, type, allocOk, sendOk, ok) ==
    /\ ~crashed
    /\ nextMsg <= MaxMsgs
    /\ client[c].created /\ client[c].dispatcher
    /\ ~client[c].disposed /\ ~client[c].closed /\ ~client[c].wantClose
    /\ nextMsg' = nextMsg + 1
    /\ LET m == nextMsg
           prog == MatchProgram(key)
           frame == [NoMsg EXCEPT !.client = c, !.type = type, !.key = key,
                                  !.prog = prog]
       IN IF HasPool
          THEN IF ~allocOk
               THEN /\ msg' = [msg EXCEPT ![m] = [frame EXCEPT
                                  !.status = "dropped", !.ret = -1,
                                  !.freed = 1]]
                    /\ client' = [client EXCEPT ![c] = DispatchFailed(@)]
                    /\ UNCHANGED <<progRefs, jobs>>
               ELSE IF sendOk
               THEN /\ msg' = [msg EXCEPT ![m] = [frame EXCEPT
                                  !.status = "queued",
                                  !.priority = JobPriority(prog),
                                  !.held = JobRefClient(client[c]).refs
                                             - client[c].refs,
                                  !.progHeld = IF prog = Null THEN 0
                                               ELSE 1]]
                    /\ client' = [client EXCEPT ![c] = JobRefClient(@)]
                    /\ progRefs' = RefProg(progRefs, prog)
                    /\ jobs' = jobs \cup {m}
               ELSE /\ msg' = [msg EXCEPT ![m] = [frame EXCEPT
                                  !.status = "dropped", !.ret = -1,
                                  !.priority = JobPriority(prog),
                                  !.freed = 1]]
                    /\ client' = [client EXCEPT
                                  ![c] = DispatchFailed(JobRefClient(@))]
                    /\ progRefs' = UnrefProg(RefProg(progRefs, prog), prog)
                    /\ UNCHANGED jobs
          ELSE LET r == virNetServerProcessMsg(prog, type, ok)
               IN /\ msg' = [msg EXCEPT ![m] = [frame EXCEPT
                                  !.status = "done", !.ret = r.ret,
                                  !.sent = r.sent,
                                  !.freed = IF r.ret < 0 THEN 1 ELSE 0]]
                  /\ client' = [client EXCEPT ![c] =
                                  IF r.ret < 0 THEN DispatchFailed(@) ELSE @]
                  /\ UNCHANGED <<progRefs, jobs>>
    /\ UNCHANGED <<workers, nclients_max, keepaliveInterval, keepaliveCount,
                   keepaliveRequired, services, programs, clients, nclients,
                   nextClient, running, crashed, restarts, preExec>>
    /\ UNCHANGED notSrvVars

\* A worker thread dequeues a Job (the pool calls virNetServerHandleJob)
WorkerTake(w) ==
    /\ ~crashed
    /\ HasPool /\ w <= workers.maxWorkers
    /\ running[w] = Null
    /\ \E m \in jobs :
          /\ jobs' = jobs \ {m}
          /\ running' = [running EXCEPT ![w] = m]
          /\ msg' = [msg EXCEPT ![m].status = "running"]
    /\ UNCHANGED <<workers, nclients_max, keepaliveInterval, keepaliveCount,
                   keepaliveRequired, services, programs, progRefs, clients,
                   nclients, client, nextClient, nextMsg, crashed, restarts,
                   preExec>>
    /\ UNCHANGED notSrvVars

\* virNetServerHandleJob, line 204: the failed Job frees its frame
JobFreesFrame(freed, ret) == IF ret < 0 THEN freed + 1 ELSE freed

\* virNetServerHandleJob, lines 197-198 and 203-206: what the end of the
\* Job does to its Connection
HandleJobClient(o, ret) ==
    IF ret < 0 THEN virObjectUnref(virNetServerClientClose(o))
    ELSE virObjectUnref(o)

\* virNetServerHandleJob: the Job of worker w runs to its end
virNetServerHandleJob(w, ok) ==
    /\ ~crashed
    /\ running[w] # Null
    /\ LET m == running[w]
           c == msg[m].client
           r == virNetServerProcessMsg(msg[m].prog, msg[m].type, ok)
       IN /\ msg' = [msg EXCEPT ![m] = [@ EXCEPT
                        !.status = "done", !.ret = r.ret, !.sent = r.sent,
                        !.held = @ - 1,
                        !.progHeld = IF msg[m].prog = Null THEN @ ELSE @ - 1,
                        !.freed = JobFreesFrame(@, r.ret)]]
          /\ progRefs' = UnrefProg(progRefs, msg[m].prog)
          /\ client' = [client EXCEPT ![c] = HandleJobClient(@, r.ret)]
    /\ running' = [running EXCEPT ![w] = Null]
    /\ UNCHANGED <<workers, nclients_max, keepaliveInterval, keepaliveCount,
                   keepaliveRequired, services, programs, clients, nclients,
                   nextClient, nextMsg, jobs, crashed, restarts, preExec>>
    /\ UNCHANGED notSrvVars

\* Connections that the Server's collection or a Job still names
InCollection(c) == \E i \in 1..Len(clients) : clients[i] = c
JobNames(c) ==
    \E m \in Msgs : msg[m].status \in {"queued", "running"}
                    /\ msg[m].client = c

\* A Connection object that was disposed is used again through a pointer
\* that the collection or a Job kept: undefined behaviour; the process may
\* die here, or go on as if the memory were intact (the other actions)
UseAfterFree ==
    /\ ~crashed
    /\ \E c \in Clients : client[c].disposed
                          /\ (InCollection(c) \/ JobNames(c))
    /\ crashed' = TRUE
    /\ UNCHANGED <<workers, nclients_max, keepaliveInterval, keepaliveCount,
                   keepaliveRequired, services, programs, progRefs, clients,
                   nclients, client, nextClient, msg, nextMsg, jobs, running,
                   restarts, preExec>>
    /\ UNCHANGED notSrvVars

\* ------------------------------------------------------------ construction
\* virNetServerNew, lines 380-385: the pool exists iff max_workers # 0
virNetServerNewWorkers(min_workers, max_workers, priority_workers) ==
    IF max_workers # 0
    THEN [exists |-> TRUE, minWorkers |-> min_workers,
          maxWorkers |-> max_workers, prioWorkers |-> priority_workers]
    ELSE NoPool

\* The last exec-restart: svcOk as given, whether a document was produced
\* (doc), whether a Server was rebuilt from it (ok), the scalars of the
\* Server before (old) and after (new)
NoPreExec == [done |-> FALSE, svcOk |-> FALSE, doc |-> FALSE, ok |-> FALSE,
              old |-> <<>>, new |-> <<>>]

\* --------------------------------------------------------- Sockets at rest
Socks == 1..MaxSocks

\* No Socket object
NoSock == [state |-> "none", client |-> FALSE, family |-> "none",
           sun_path |-> <<>>, fdOpen |-> FALSE, listened |-> <<>>]

\* No Socket operation yet
NoOp == [name |-> "none", s |-> 0, path |-> <<>>, unlinks |-> <<>>]

\* No buffer is being written
InitWriteIdle ==
    /\ saslSession = FALSE
    /\ saslEncoded = <<>>
    /\ saslEncodedOffset = 0
    /\ saslEncodedLength = 0
    /\ wbuf = <<>>
    /\ woff = 0
    /\ wire = <<>>
    /\ wstate = "idle"
    /\ wzero = FALSE

\* No Socket exists
InitUnixIdle ==
    /\ sock = [s \in Socks |-> NoSock]
    /\ fs = {}
    /\ uop = NoOp

\* No system call yet
NoSys == [kind |-> "none", n |-> 0]

\* No call of virNetSocketReadWire or virNetSocketWriteWire
NoIo == [op |-> "none", len |-> 0, state |-> "idle", calls |-> 0,
         last |-> NoSys, ret |-> 0, report |-> "none"]

InitIoIdle == io = NoIo

\* No call of virNetSocketNewListenTCP or virNetSocketNewConnectTCP
NoTcp == [op |-> "none", resolveOk |-> TRUE, cands |-> <<>>,
          afterOk |-> TRUE, ret |-> 0, socks |-> <<>>, error |-> "none",
          open |-> {}, log |-> <<>>]

InitTcpIdle == tcp = NoTcp

\* No call of virNetSocketNewConnectUNIX
NoCu == [state |-> "idle", spawnDaemon |-> FALSE, fd |-> "none",
         retries |-> 0, attempts |-> 0, spawns |-> 0, forkFailed |-> FALSE,
         delays |-> <<>>, errno |-> "none", ret |-> 0]

InitCuIdle == cu = NoCu

\* A Socket after virNetSocketNew: one reference, no watch (the object is
\* allocated zeroed), and an event loop that has no handle for it
NoEv == [watch |-> 0, func |-> Null, opaque |-> Null, ff |-> Null,
         refs |-> 1, handles |-> <<>>, adds |-> 0, ret |-> 0,
         op |-> "none"]

InitEvIdle == ev = NoEv

\* a NULL slot of srv->signals
NoSignal == [signum |-> 0, func |-> Null]

\* A Server after virNetServerNew, line 391: sigwrite = sigread = -1, no
\* signals; no signal handler installed in the process
NoSg == [sigwrite |-> -1, sigwatch |-> 0, signals |-> <<>>,
         installed |-> {}, pipe |-> <<>>, sigErrors |-> 0,
         delivered |-> <<>>, invoked |-> <<>>, adds |-> 0,
         crashed |-> FALSE, ret |-> 0]

InitSgIdle == sg = NoSg

InhThreads == 1..MaxInhThreads
TimerThread == 0       \* the reactor, in virNetServerAutoShutdownTimer
NoOwner == -1          \* srv->lock is free

NoInhThread == [pc |-> "idle", op |-> "none", tmp |-> 0, held |-> 0]

\* A Server whose lock is free and whose counter is 0 (virNetServerNew
\* allocates the object zeroed), no thread inside a call
NoInh == [lock |-> NoOwner, counter |-> 0,
          th |-> [t \in InhThreads \cup {TimerThread} |-> NoInhThread],
          adds |-> 0, removes |-> 0, calls |-> 0, quit |-> FALSE,
          seen |-> <<>>]

InitInhIdle == inh = NoInh

Cmds == 1..MaxCmds

\* no Socket: *retsock = NULL
NoCmdSock == [state |-> "none", fd |-> -1, errfd |-> -1, pid |-> 0]

\* a process with no descriptor of its own open and no child
NoCc == [open |-> {}, child |-> [i \in Cmds |-> "none"],
         socks |-> [i \in Cmds |-> NoCmdSock],
         calls |-> 0, ret |-> 0]

InitCcIdle == cc = NoCc

RegObjs == 1..MaxRegObjs

\* A Server with no Service and no Connection registered; every Service and
\* Connection has the one reference of its creator
NoReg == [services |-> <<>>, svcRefs |-> [o \in RegObjs |-> 1],
          dispatcher |-> {}, mdnsEntries |-> <<>>,
          clients |-> <<>>, cliRefs |-> [o \in RegObjs |-> 1],
          cliInit |-> {}, nclients_max |-> 0, calls |-> 0, ret |-> 0]

InitRegIdle == reg = NoReg

\* A Socket that nobody reads: no decoded chunk (saslDecoded = NULL is the
\* empty sequence), nothing arrived
NoRd == [state |-> "idle", saslDecoded |-> <<>>, saslDecodedOffset |-> 0,
         saslDecodedLength |-> 0, inwire |-> <<>>, partial |-> <<>>,
         decodedAll |-> <<>>, returned |-> <<>>, peerPlain |-> <<>>,
         chunks |-> 0, wireRead |-> FALSE, ret |-> 0]

InitRdIdle == rd = NoRd

\* No Socket (NULL); an address family of 0 is an address never filled in
NoPxSock == [exists |-> FALSE, fd |-> -1, errfd |-> -1, pid |-> 0,
             client |-> FALSE, sasl |-> FALSE, tls |-> FALSE,
             cloexec |-> TRUE, errCloexec |-> TRUE,
             localAddr |-> 0, remoteAddr |-> 0]

\* No sub-document (NULL)
NoPxDoc == [ok |-> FALSE, has |-> {}, fd |-> -1, errfd |-> -1, pid |-> 0,
            isClient |-> FALSE]

NoPx == [state |-> "idle", sock |-> NoPxSock, before |-> NoPxSock,
         doc |-> NoPxDoc, new |-> NoPxSock, ret |-> 0]

InitPxIdle == px = NoPx

\* virNetServerNew, line 397: no inhibit descriptor, no call outstanding
NoIh == [counter |-> 0, callingInhibit |-> FALSE, inhibitFd |-> -1,
         outstanding |-> 0, open |-> {}, adds |-> 0, replies |-> 0,
         lateClosed |-> 0, zeroClosed |-> 0, op |-> "none"]

InitIhIdle == ih = NoIh

Reactor == 0           \* the thread that called virNetServerRun
LkThreads == 0..MaxLkWorkers
LkConns == 1..MaxLkConns

\* no thread runs, no lock is held
NoLk == [pooled |-> FALSE, srvLock |-> NoOwner,
         connLock |-> [c \in LkConns |-> NoOwner],
         th |-> [t \in LkThreads |-> [pc |-> "none", c |-> 1]],
         jobs |-> <<>>, frames |-> 0, srvops |-> 0]

InitLkIdle == lk = NoLk

\* virNetServerRun has not been called; virNetServerNew leaves the
\* auto-shutdown fields zero
InitRunIdle ==
    /\ autoShutdownTimeout = 0
    /\ autoShutdownInhibitions = 0
    /\ quit = FALSE
    /\ quitBy = "none"
    /\ timerActive = FALSE
    /\ pc = "idle"
    /\ why = "none"
    /\ last = "none"

InitObjects ==
    /\ programs = <<>>
    /\ progRefs = [p \in ProgramIds |-> 1]
    /\ clients = <<>>
    /\ nclients = 0
    /\ client = [c \in Clients |-> NoClient]
    /\ nextClient = 1
    /\ msg = [m \in Msgs |-> NoMsg]
    /\ nextMsg = 1
    /\ jobs = {}
    /\ running = [w \in Threads |-> Null]
    /\ crashed = FALSE
    /\ restarts = 0
    /\ preExec = NoPreExec

\* The Server after virNetServerNew and the registration of its Service,
\* pooled or synchronous
Init ==
    /\ \E mw \in {0, MaxThreads} :
          workers = virNetServerNewWorkers(1, mw, 1)
    /\ nclients_max = MaxClientsCfg
    /\ keepaliveInterval = 5
    /\ keepaliveCount = 3
    /\ keepaliveRequired = FALSE
    /\ services = <<[cloexec |-> TRUE]>>
    /\ InitObjects
    /\ InitWriteIdle
    /\ InitUnixIdle
    /\ InitIoIdle
    /\ InitRunIdle
    /\ InitTcpIdle
    /\ InitCuIdle
    /\ InitEvIdle
    /\ InitSgIdle
    /\ InitInhIdle
    /\ InitCcIdle
    /\ InitRegIdle
    /\ InitRdIdle
    /\ InitPxIdle
    /\ InitIhIdle
    /\ InitLkIdle

Next ==
    \/ \E s \in 1..MaxServices, newOk, initOk, expandOk \in BOOLEAN :
          /\ nextClient <= MaxConns
          /\ virNetServerDispatchNewClient(s, newOk, initOk, expandOk)
    \/ \E c \in Clients : ClientWantsClose(c)
    \/ ReapPass
    \/ \E p \in ProgramIds : virNetServerAddProgram(p, TRUE)
    \/ \E c \in Clients, key \in Keys, type \in MsgTypes,
          allocOk, sendOk, ok \in BOOLEAN :
          virNetServerDispatchNewMessage(c, key, type, allocOk, sendOk, ok)
    \/ \E w \in Threads : WorkerTake(w)
    \/ \E w \in Threads, ok \in BOOLEAN : virNetServerHandleJob(w, ok)
    \/ UseAfterFree

Spec == Init /\ [][Next]_vars

\* ------------------------------------------------------------ exec-restart
\* virNetServerAddService with mdnsEntryName = NULL (Services are
\* registered before the run loop)
virNetServerAddService(expandOk) ==
    /\ ~crashed
    /\ nextClient = 1 /\ restarts = 0
    /\ Len(services) < MaxServices
    /\ expandOk
    /\ services' = Append(services, [cloexec |-> TRUE])
    /\ UNCHANGED <<workers, nclients_max, keepaliveInterval, keepaliveCount,
                   keepaliveRequired, programs, progRefs, clients, nclients,
                   client, nextClient, msg, nextMsg, jobs, running, crashed,
                   restarts, preExec>>
    /\ UNCHANGED notSrvVars

LiveClient(c) ==
    client[c].created /\ ~client[c].disposed /\ ~client[c].closed

\* virNetSocketSetTLSSession on the Socket of Connection c
virNetSocketSetTLSSession(c) ==
    /\ ~crashed
    /\ LiveClient(c) /\ ~client[c].tls
    /\ client' = [client EXCEPT ![c].tls = TRUE]
    /\ UNCHANGED <<workers, nclients_max, keepaliveInterval, keepaliveCount,
                   keepaliveRequired, services, programs, progRefs, clients,
                   nclients, nextClient, msg, nextMsg, jobs, running,
                   crashed, restarts, preExec>>
    /\ UNCHANGED notSrvVars

\* virNetSocketSetSASLSession on the Socket of Connection c
virNetSocketSetSASLSession(c) ==
    /\ ~crashed
    /\ LiveClient(c) /\ ~client[c].sasl
    /\ client' = [client EXCEPT ![c].sasl = TRUE]
    /\ UNCHANGED <<workers, nclients_max, keepaliveInterval, keepaliveCount,
                   keepaliveRequired, services, programs, progRefs, clients,
                   nclients, nextClient, msg, nextMsg, jobs, running,
                   crashed, restarts, preExec>>
    /\ UNCHANGED notSrvVars

NoSockDoc == [ok |-> FALSE, fd |-> -1, errfd |-> -1, pid |-> 0,
              isClient |-> FALSE]

\* A test of the sessions that overlooks TLS
SocketHasSessionSASL(o) == o.sasl

\* virNetSocketPreExecRestart, lines 946-956: the sessions that make the
\* serialisation of a Socket fail
SocketHasSession(o) == o.sasl \/ o.tls

\* virNetSocketPreExecRestart: the sub-document of the Socket with
\* descriptor fd (an accepted transport: no error stream, no child), or
\* NULL
virNetSocketPreExecRestart(o, fd) ==
    IF SocketHasSession(o) THEN NoSockDoc
    ELSE [ok |-> TRUE, fd |-> fd, errfd |-> -1, pid |-> 0, isClient |-> TRUE]

\* virNetServerPreExecRestart, lines 663-672: the serialisation of the
\* Services fails iff there is one and virNetServerServicePreExecRestart
\* fails
ServicesFail(svcOk) == ~svcOk /\ Len(services) > 0

\* virNetServerPreExecRestart, lines 680-689: the sub-documents of the
\* Connections, in the order of the collection
ClientDocs ==
    [i \in 1..nclients |->
        virNetSocketPreExecRestart(client[clients[i]], clients[i])]

NoServerDoc == [ok |-> FALSE]

\* virNetServerPreExecRestart, lines 674-699: whether a failed
\* serialisation of a Service or of a Connection fails the whole
PreExecFails(svcOk) ==
    ServicesFail(svcOk) \/ \E i \in 1..nclients : ~ClientDocs[i].ok

\* virNetServerPreExecRestart: the document, or NULL
virNetServerPreExecRestart(svcOk) ==
    IF PreExecFails(svcOk) THEN NoServerDoc
    ELSE [ok |-> TRUE,
          min_workers |-> ToUint(workers.minWorkers),
          max_workers |-> ToUint(workers.maxWorkers),
          priority_workers |-> ToUint(workers.prioWorkers),
          max_clients |-> ToUint(nclients_max),
          keepaliveInterval |-> ToUint(keepaliveInterval),
          keepaliveCount |-> ToUint(keepaliveCount),
          keepaliveRequired |-> keepaliveRequired,
          services |-> [i \in 1..Len(services) |-> [ok |-> TRUE]],
          clients |-> ClientDocs]

\* virNetSocketPreExecRestart, lines 973-985, inside the loops of
\* virNetServerPreExecRestart: the descriptors made inheritable are those
\* of the Sockets serialised before the first failure
ServicesInherit(svcOk) ==
    [i \in 1..Len(services) |->
        IF svcOk THEN [services[i] EXCEPT !.cloexec = FALSE]
        ELSE services[i]]

ClientsInherit(svcOk) ==
    [c \in Clients |->
        IF /\ ~ServicesFail(svcOk)
           /\ \E i \in 1..nclients :
                 /\ clients[i] = c
                 /\ \A j \in 1..i : ClientDocs[j].ok
        THEN [client[c] EXCEPT !.cloexec = FALSE]
        ELSE client[c]]

\* virNetServerNewPostExecRestart, lines 514-519: the pool of the new
\* Server
PostExecWorkers(doc) ==
    virNetServerNewWorkers(ToSize(doc.min_workers), ToSize(doc.max_clients),
                           ToSize(doc.priority_workers))

\* virNetServerNewPostExecRestart, lines 568-589: every Connection of the
\* document is added with virNetServerAddClient
PostExecClientsOk(doc, postOk) ==
    \A i \in 1..Len(doc.clients) :
        AddClientResult(i - 1, ToSize(doc.max_clients), postOk, postOk)
            = "ok"

\* virNetServerNewPostExecRestart: whether a Server is returned; postOk:
\* the reconstruction and the registration of each Service and of each
\* Connection succeed
PostExecOk(doc, postOk) ==
    /\ postOk \/ (Len(doc.services) = 0 /\ Len(doc.clients) = 0)
    /\ PostExecClientsOk(doc, postOk)

\* The scalars, the Service count and the Connection count of a Server
Scalars(w, max, ki, kc, kr, ns, nc) ==
    [min_workers |-> w.minWorkers, max_workers |-> w.maxWorkers,
     priority_workers |-> w.prioWorkers, max_clients |-> max,
     keepaliveInterval |-> ki, keepaliveCount |-> kc,
     keepaliveRequired |-> kr, nservices |-> ns, nclients |-> nc]

ServerScalars ==
    Scalars(workers, nclients_max, keepaliveInterval, keepaliveCount,
            keepaliveRequired, Len(services), nclients)

\* The daemon serialises its Server (virNetServerPreExecRestart), execs,
\* and the new image rebuilds the Server from the document
\* (virNetServerNewPostExecRestart).  zeroPool: what reading the worker
\* counts through srv->workers == NULL does, FALSE for a fault
ExecRestart(zeroPool, svcOk, postOk) ==
    /\ ~crashed
    /\ restarts < MaxRestarts
    /\ restarts' = restarts + 1
    /\ UNCHANGED <<programs, progRefs, nextClient, msg, nextMsg, jobs,
                   running>>
    /\ IF ~HasPool /\ ~zeroPool
       THEN /\ crashed' = TRUE
            /\ preExec' = [done |-> TRUE, svcOk |-> svcOk, doc |-> FALSE,
                           ok |-> FALSE, old |-> ServerScalars,
                           new |-> ServerScalars]
            /\ UNCHANGED <<workers, nclients_max, keepaliveInterval,
                           keepaliveCount, keepaliveRequired, services,
                           clients, nclients, client>>
       ELSE LET doc == virNetServerPreExecRestart(svcOk)
            IN IF ~doc.ok
               THEN /\ services' = ServicesInherit(svcOk)
                    /\ client' = ClientsInherit(svcOk)
                    /\ preExec' = [done |-> TRUE, svcOk |-> svcOk,
                                   doc |-> FALSE, ok |-> FALSE,
                                   old |-> ServerScalars,
                                   new |-> ServerScalars]
                    /\ UNCHANGED <<workers, nclients_max, keepaliveInterval,
                                   keepaliveCount, keepaliveRequired,
                                   clients, nclients, crashed>>
               ELSE IF ~PostExecOk(doc, postOk)
               THEN /\ crashed' = TRUE
                    /\ services' = ServicesInherit(svcOk)
                    /\ client' = ClientsInherit(svcOk)
                    /\ preExec' = [done |-> TRUE, svcOk |-> svcOk,
                                   doc |-> TRUE, ok |-> FALSE,
                                   old |-> ServerScalars,
                                   new |-> ServerScalars]
                    /\ UNCHANGED <<workers, nclients_max, keepaliveInterval,
                                   keepaliveCount, keepaliveRequired,
                                   clients, nclients>>
               ELSE /\ workers' = PostExecWorkers(doc)
                    /\ nclients_max' = ToSize(doc.max_clients)
                    /\ keepaliveInterval' = ToInt(doc.keepaliveInterval)
                    /\ keepaliveCount' = ToSize(doc.keepaliveCount)
                    /\ keepaliveRequired' = doc.keepaliveRequired
                    /\ services' = [i \in 1..Len(doc.services) |->
                                        [cloexec |-> TRUE]]
                    /\ clients' = [i \in 1..Len(doc.clients) |->
                                        doc.clients[i].fd]
                    /\ nclients' = Len(doc.clients)
                    /\ client' = [c \in Clients |->
                          IF \E i \in 1..Len(doc.clients) :
                                doc.clients[i].fd = c
                          THEN virObjectUnref(AddClientObj(
                                  virNetServerClientNew,
                                  ToInt(doc.keepaliveInterval),
                                  ToSize(doc.keepaliveCount)))
                          ELSE NoClient]
                    /\ preExec' = [done |-> TRUE, svcOk |-> svcOk,
                                   doc |-> TRUE, ok |-> TRUE,
                                   old |-> ServerScalars,
                                   new |-> ServerScalars']
                    /\ UNCHANGED crashed
    /\ UNCHANGED notSrvVars

\* The Server after virNetServerNew, before its Services are registered
InitRestart ==
    /\ \E mw \in {0, 2} : workers = virNetServerNewWorkers(1, mw, 1)
    /\ nclients_max \in 0..MaxClientsCfg
    /\ \E ka \in {<<-1, FALSE>>, <<5, TRUE>>} :
          keepaliveInterval = ka[1] /\ keepaliveRequired = ka[2]
    /\ keepaliveCount = 3
    /\ services = <<>>
    /\ InitObjects
    /\ InitWriteIdle
    /\ InitUnixIdle
    /\ InitIoIdle
    /\ InitRunIdle
    /\ InitTcpIdle
    /\ InitCuIdle
    /\ InitEvIdle
    /\ InitSgIdle
    /\ InitInhIdle
    /\ InitCcIdle
    /\ InitRegIdle
    /\ InitRdIdle
    /\ InitPxIdle
    /\ InitIhIdle
    /\ InitLkIdle

NextRestart ==
    \/ virNetServerAddService(TRUE)
    \/ \E s \in 1..MaxServices, newOk, initOk, expandOk \in BOOLEAN :
          /\ nextClient <= MaxAccepts
          /\ virNetServerDispatchNewClient(s, newOk, initOk, expandOk)
    \/ \E c \in Clients : ClientWantsClose(c)
    \/ ReapPass
    \/ \E c \in Clients : virNetSocketSetTLSSession(c)
    \/ \E c \in Clients : virNetSocketSetSASLSession(c)
    \/ \E zeroPool, svcOk, postOk \in BOOLEAN :
          ExecRestart(zeroPool, svcOk, postOk)

SpecRestart == InitRestart /\ [][NextRestart]_vars

\* ----------------------------------------------------------- Socket writes
\* No Server: the Socket specifications leave the Server at rest
InitNoServer ==
    /\ workers = NoPool
    /\ nclients_max = 0
    /\ keepaliveInterval = 0
    /\ keepaliveCount = 0
    /\ keepaliveRequired = FALSE
    /\ services = <<>>
    /\ InitObjects

Bytes == {0, 1}
Buffers == UNION {[1..n -> Bytes] : n \in 1..MaxLen}
Min(a, b) == IF a < b THEN a ELSE b
IsPrefix(a, b) == Len(a) <= Len(b) /\ SubSeq(b, 1, Len(a)) = a

\* virNetSASLSessionEncode: the encoded form of a chunk, its length
\* followed by its bytes, each transformed
virNetSASLSessionEncode(p) == <<Len(p)>> \o [i \in 1..Len(p) |-> 1 - p[i]]

\* What the SASL layer of the peer decodes from the bytes it received: the
\* chunks that arrived whole, in order
RECURSIVE SaslDecode(_)
SaslDecode(w) ==
    IF w = <<>> \/ Len(w) < w[1] + 1 THEN <<>>
    ELSE [i \in 1..w[1] |-> 1 - w[i + 1]]
             \o SaslDecode(SubSeq(w, w[1] + 2, Len(w)))

\* The content that the peer has received
PeerPlain == IF saslSession THEN SaslDecode(wire) ELSE wire

\* What write(2) does with the bytes offered: it accepts the first n of
\* them, or fails with EAGAIN, fails with another error, or returns 0
WireMax == MaxLen + 1
WireOutcomes ==
    [kind : {"eagain", "error", "eof"}, n : {0}]
        \cup [kind : {"accept"}, n : 1..WireMax]

\* virNetSocketWriteWire: the result for len bytes offered (a write that
\* EINTR interrupts is repeated: out is the outcome of the last one)
virNetSocketWriteWire(len, out) ==
    IF out.kind = "accept" THEN Min(out.n, len)
    ELSE IF out.kind = "eagain" THEN 0
    ELSE -1

\* An encoder that runs on every call, pending encoded data or not
SaslAlwaysEncode(enc) == TRUE

\* virNetSocketWriteSASL, line 1427: if (sock->saslEncoded == NULL)
SaslNeedsEncode(enc) == enc = <<>>

\* virNetSocketWriteSASL on the len bytes of wbuf from woff: the result,
\* the encode buffer afterwards and the bytes put on the wire
virNetSocketWriteSASL(len, out, encOk) ==
    LET tosend == Min(SaslMaxBuf, len)
        fresh == SaslNeedsEncode(saslEncoded)
        keep == [ret |-> -1, saslEncoded |-> saslEncoded,
                 saslEncodedOffset |-> saslEncodedOffset,
                 saslEncodedLength |-> saslEncodedLength, sent |-> <<>>]
    IN IF fresh /\ ~encOk THEN keep
       ELSE LET enc == IF fresh
                       THEN virNetSASLSessionEncode(
                                SubSeq(wbuf, woff + 1, woff + tosend))
                       ELSE saslEncoded
                elen == IF fresh THEN Len(enc) ELSE saslEncodedLength
                off == IF fresh THEN 0 ELSE saslEncodedOffset
                r == virNetSocketWriteWire(elen - off, out)
                pending == [keep EXCEPT !.saslEncoded = enc,
                                        !.saslEncodedOffset = off,
                                        !.saslEncodedLength = elen]
            IN IF r <= 0 THEN [pending EXCEPT !.ret = r]
               ELSE IF off + r = elen
               THEN [ret |-> tosend, saslEncoded |-> <<>>,
                     saslEncodedOffset |-> 0, saslEncodedLength |-> 0,
                     sent |-> SubSeq(enc, off + 1, off + r)]
               ELSE [pending EXCEPT !.ret = 0,
                                    !.saslEncodedOffset = off + r,
                                    !.sent = SubSeq(enc, off + 1, off + r)]

\* virNetSocketWrite, lines 1486-1491: the layer that takes the bytes
WriteLayer(len, out, encOk) ==
    IF saslSession THEN virNetSocketWriteSASL(len, out, encOk)
    ELSE LET r == virNetSocketWriteWire(len, out)
         IN [ret |-> r, saslEncoded |-> saslEncoded,
             saslEncodedOffset |-> saslEncodedOffset,
             saslEncodedLength |-> saslEncodedLength,
             sent |-> IF r > 0 THEN SubSeq(wbuf, woff + 1, woff + r)
                      ELSE <<>>]

\* virNetSocketWrite, called with what is left of the buffer; the caller
\* gives up on an error, and otherwise keeps the rest for its next call
virNetSocketWrite(out, encOk) ==
    /\ wstate = "writing"
    /\ LET res == WriteLayer(Len(wbuf) - woff, out, encOk)
       IN /\ wire' = wire \o res.sent
          /\ saslEncoded' = res.saslEncoded
          /\ saslEncodedOffset' = res.saslEncodedOffset
          /\ saslEncodedLength' = res.saslEncodedLength
          /\ wzero' = (wzero \/ res.ret = 0)
          /\ IF res.ret < 0
             THEN wstate' = "error" /\ woff' = woff
             ELSE /\ woff' = woff + res.ret
                  /\ wstate' = IF woff' = Len(wbuf) THEN "done"
                               ELSE "writing"
    /\ UNCHANGED <<srvVars, notWrVars, saslSession, wbuf>>

\* A caller is about to offer a buffer to a plain or a SASL-layered Socket
InitWrite ==
    /\ saslSession \in BOOLEAN
    /\ wbuf \in Buffers
    /\ woff = 0
    /\ saslEncoded = <<>>
    /\ saslEncodedOffset = 0
    /\ saslEncodedLength = 0
    /\ wire = <<>>
    /\ wstate = "writing"
    /\ wzero = FALSE
    /\ InitNoServer
    /\ InitUnixIdle
    /\ InitIoIdle
    /\ InitRunIdle
    /\ InitTcpIdle
    /\ InitCuIdle
    /\ InitEvIdle
    /\ InitSgIdle
    /\ InitInhIdle
    /\ InitCcIdle
    /\ InitRegIdle
    /\ InitRdIdle
    /\ InitPxIdle
    /\ InitIhIdle
    /\ InitLkIdle

NextWrite ==
    \E out \in WireOutcomes, encOk \in BOOLEAN :
        /\ Len(wire) <= 2 * MaxLen
        /\ virNetSocketWrite(out, encOk)

SpecWrite == InitWrite /\ [][NextWrite]_vars

\* the wire accepts some of the bytes offered
WireAccepts ==
    \E n \in 1..WireMax :
        virNetSocketWrite([kind |-> "accept", n |-> n], TRUE)

\* the wire eventually accepts bytes
FairSpecWrite == SpecWrite /\ WF_vars(WireAccepts)

\* virNetSocketWrite(sock, buf, len) by a caller that chooses on every call
\* how many of the bytes it has left it offers
virNetSocketWriteLen(len, out, encOk) ==
    /\ wstate = "writing"
    /\ len \in 1..(Len(wbuf) - woff)
    /\ LET res == WriteLayer(len, out, encOk)
       IN /\ wire' = wire \o res.sent
          /\ saslEncoded' = res.saslEncoded
          /\ saslEncodedOffset' = res.saslEncodedOffset
          /\ saslEncodedLength' = res.saslEncodedLength
          /\ wzero' = (wzero \/ res.ret = 0)
          /\ IF res.ret < 0
             THEN wstate' = "error" /\ woff' = woff
             ELSE /\ woff' = woff + res.ret
                  /\ wstate' = IF woff' = Len(wbuf) THEN "done"
                               ELSE "writing"
    /\ UNCHANGED <<srvVars, notWrVars, saslSession, wbuf>>

NextWriteLen ==
    \E len \in 1..MaxLen, out \in WireOutcomes, encOk \in BOOLEAN :
        /\ Len(wire) <= 2 * MaxLen
        /\ virNetSocketWriteLen(len, out, encOk)

SpecWriteLen == InitWrite /\ [][NextWriteLen]_vars

\* ------------------------------------------------- UNIX sockets and unlink
\* The names given to listen: filenames and an abstract ('@') name, as
\* sequences of bytes (a name is never the empty string)
Paths == {<<"/", "p">>, <<"/", "q">>, <<"@", "a">>}

\* The first byte of a C string: NUL for the empty string
First(p) == IF p = <<>> THEN "NUL" ELSE p[1]

\* virNetSocketNewListenUNIX, lines 364-365: the address of an '@' name
AbstractAddr(path) == <<"NUL">> \o Tail(path)

\* virNetSocketNewListenUNIX, lines 364 and 396: whether listen unlinks
\* the name it was given
ListenUnlinks(path) == First(path) # "@"

\* An unlink call: the name, and the end that made it
UnlinkCall(path, isClient, family) ==
    [path |-> path, client |-> isClient, family |-> family]

\* virNetSocketNewListenUNIX; out is where it fails, "ok" when it does not
virNetSocketNewListenUNIX(s, path, out) ==
    /\ sock[s].state = "none"
    /\ LET reached == out \notin {"socket", "toolong"}
           sun_path == IF First(path) = "@" THEN AbstractAddr(path)
                       ELSE path
           cleanup == reached /\ ListenUnlinks(path)
           fs1 == IF cleanup THEN fs \ {sun_path} ELSE fs
           bound == reached /\ out # "bind"
           fs2 == IF bound /\ First(sun_path) # "NUL"
                  THEN fs1 \cup {sun_path} ELSE fs1
           failed == out # "ok" /\ ListenUnlinks(path)
           call == <<UnlinkCall(path, FALSE, "unix")>>
       IN /\ fs' = IF failed THEN fs2 \ {path} ELSE fs2
          /\ uop' = [name |-> "listen", s |-> s, path |-> path,
                     unlinks |-> (IF cleanup THEN call ELSE <<>>)
                                 \o (IF failed THEN call ELSE <<>>)]
          /\ sock' = IF out = "ok"
                     THEN [sock EXCEPT ![s] =
                             [state |-> "open", client |-> FALSE,
                              family |-> "unix", sun_path |-> sun_path,
                              fdOpen |-> TRUE, listened |-> path]]
                     ELSE sock
    /\ UNCHANGED <<srvVars, notUnVars>>

\* virNetSocketNewListenTCP: a listening end that has no path
virNetSocketNewListenTCP(s) ==
    /\ sock[s].state = "none"
    /\ sock' = [sock EXCEPT ![s] =
                  [state |-> "open", client |-> FALSE, family |-> "inet",
                   sun_path |-> <<>>, fdOpen |-> TRUE, listened |-> <<>>]]
    /\ uop' = [NoOp EXCEPT !.name = "listen_tcp", !.s = s]
    /\ UNCHANGED <<fs, srvVars, notUnVars>>

\* virNetSocketAccept on listener l: the new Socket is a client end whose
\* local address (getsockname) is the address that l is bound to
virNetSocketAccept(l, s) ==
    /\ sock[l].state = "open" /\ sock[l].fdOpen /\ ~sock[l].client
    /\ sock[s].state = "none"
    /\ sock' = [sock EXCEPT ![s] =
                  [state |-> "open", client |-> TRUE,
                   family |-> sock[l].family,
                   sun_path |-> sock[l].sun_path, fdOpen |-> TRUE,
                   listened |-> <<>>]]
    /\ uop' = [NoOp EXCEPT !.name = "accept", !.s = s]
    /\ UNCHANGED <<fs, srvVars, notUnVars>>

\* virNetSocketNewConnectUNIX: a client end, its local address unnamed
virNetSocketNewConnectUNIX(s) ==
    /\ sock[s].state = "none"
    /\ sock' = [sock EXCEPT ![s] =
                  [state |-> "open", client |-> TRUE, family |-> "unix",
                   sun_path |-> <<>>, fdOpen |-> TRUE, listened |-> <<>>]]
    /\ uop' = [NoOp EXCEPT !.name = "connect", !.s = s]
    /\ UNCHANGED <<fs, srvVars, notUnVars>>

\* A test of ownership that forgets the client flag
OwnsUnixPathAnyEnd(o) == o.family = "unix" /\ First(o.sun_path) # "NUL"

\* virNetSocketClose, lines 1738-1740, and virNetSocketDispose, lines
\* 1009-1011: the Socket is a server end bound to a UNIX path
OwnsUnixPath(o) ==
    ~o.client /\ o.family = "unix" /\ First(o.sun_path) # "NUL"

\* A Close that does not note that it removed the path
CloseForgets(sun_path, removed) == sun_path

\* virNetSocketClose, lines 1741-1742: a successful unlink is noted in the
\* first byte of the path
CloseRecord(sun_path, removed) ==
    IF removed THEN AbstractAddr(sun_path) ELSE sun_path

\* virNetSocketClose
virNetSocketClose(s) ==
    /\ sock[s].state = "open"
    /\ LET o == sock[s]
           owns == OwnsUnixPath(o)
       IN /\ fs' = IF owns THEN fs \ {o.sun_path} ELSE fs
          /\ sock' = [sock EXCEPT ![s] =
                [o EXCEPT !.fdOpen = FALSE,
                          !.sun_path = IF owns
                                       THEN CloseRecord(@, @ \in fs)
                                       ELSE @]]
          /\ uop' = [name |-> "close", s |-> s, path |-> <<>>,
                     unlinks |-> IF owns
                                 THEN <<UnlinkCall(o.sun_path, o.client,
                                                   o.family)>>
                                 ELSE <<>>]
    /\ UNCHANGED <<srvVars, notUnVars>>

\* virNetSocketDispose: the last reference to the Socket is dropped
virNetSocketDispose(s) ==
    /\ sock[s].state = "open"
    /\ LET o == sock[s]
           owns == OwnsUnixPath(o)
       IN /\ fs' = IF owns THEN fs \ {o.sun_path} ELSE fs
          /\ sock' = [sock EXCEPT ![s] =
                [o EXCEPT !.state = "disposed", !.fdOpen = FALSE]]
          /\ uop' = [name |-> "dispose", s |-> s, path |-> <<>>,
                     unlinks |-> IF owns
                                 THEN <<UnlinkCall(o.sun_path, o.client,
                                                   o.family)>>
                                 ELSE <<>>]
    /\ UNCHANGED <<srvVars, notUnVars>>

\* Another process removes a path
ExternalUnlink(path) ==
    /\ path \in fs
    /\ fs' = fs \ {path}
    /\ uop' = [NoOp EXCEPT !.name = "external", !.path = path]
    /\ UNCHANGED <<sock, srvVars, notUnVars>>

InitUnix ==
    /\ InitUnixIdle
    /\ InitIoIdle
    /\ InitRunIdle
    /\ InitTcpIdle
    /\ InitCuIdle
    /\ InitEvIdle
    /\ InitSgIdle
    /\ InitInhIdle
    /\ InitCcIdle
    /\ InitRegIdle
    /\ InitRdIdle
    /\ InitPxIdle
    /\ InitIhIdle
    /\ InitLkIdle
    /\ InitWriteIdle
    /\ InitNoServer

ListenOutcomes == {"ok", "socket", "toolong", "bind", "chown", "new"}

NextUnix ==
    \/ \E s \in Socks, path \in Paths, out \in ListenOutcomes :
          virNetSocketNewListenUNIX(s, path, out)
    \/ \E s \in Socks : virNetSocketNewListenTCP(s)
    \/ \E l, s \in Socks : virNetSocketAccept(l, s)
    \/ \E s \in Socks : virNetSocketNewConnectUNIX(s)
    \/ \E s \in Socks : virNetSocketClose(s)
    \/ \E s \in Socks : virNetSocketDispose(s)
    \/ \E path \in Paths : ExternalUnlink(path)

SpecUnix == InitUnix /\ [][NextUnix]_vars

\* ------------------------------------------------------------ wire read/write
\* What one read(2) or write(2) (or its TLS counterpart) on a socket without
\* an SSH session can answer for len bytes: a failure with its errno, or a
\* byte count from 0 to len
SysErrnos == {"EINTR", "EAGAIN", "ECONNRESET"}
SysOutcomes(len) ==
    [kind : SysErrnos, n : {0}] \cup [kind : {"count"}, n : 0..len]

\* lines 1292-1293 and 1348-1349: the system call is repeated
SysRetried(out) == out.kind = "EINTR"

\* A read that answers end of stream with 0
ReadWireEofZero(len, out) ==
    IF out.kind = "count" THEN out.n
    ELSE IF out.kind = "EAGAIN" THEN 0
    ELSE -1

\* virNetSocketReadWire, lines 1294-1326: the result once the system call
\* has answered something other than EINTR
virNetSocketReadWire(len, out) ==
    IF out.kind = "EAGAIN" THEN 0
    ELSE IF out.kind # "count" THEN -1
    ELSE IF out.n = 0 THEN -1
    ELSE out.n

\* the error virNetSocketReadWire reports, lines 1307-1323
ReadWireReport(out) ==
    IF out.kind = "EAGAIN" THEN "none"
    ELSE IF out.kind # "count" THEN out.kind
    ELSE IF out.n = 0 THEN "EIO"
    ELSE "none"

\* the outcome of write(2) as virNetSocketWriteWire tells them apart,
\* lines 1347-1363
WriteOutcome(out) ==
    IF out.kind = "EAGAIN" THEN [kind |-> "eagain", n |-> 0]
    ELSE IF out.kind # "count" THEN [kind |-> "error", n |-> 0]
    ELSE IF out.n = 0 THEN [kind |-> "eof", n |-> 0]
    ELSE [kind |-> "accept", n |-> out.n]

\* the error virNetSocketWriteWire reports, lines 1353-1360
WriteWireReport(out) ==
    IF out.kind = "EAGAIN" THEN "none"
    ELSE IF out.kind # "count" THEN out.kind
    ELSE IF out.n = 0 THEN "EIO"
    ELSE "none"

\* A caller enters virNetSocketReadWire or virNetSocketWriteWire with a
\* buffer of len bytes
WireCall(op, len) ==
    /\ io.state # "calling"
    /\ io' = [NoIo EXCEPT !.op = op, !.len = len, !.state = "calling"]
    /\ UNCHANGED <<srvVars, notIoVars>>

\* One system call of the function: at EINTR the function jumps back and
\* calls again, at anything else it returns
WireSyscall(out) ==
    /\ io.state = "calling"
    /\ io' = IF SysRetried(out)
             THEN [io EXCEPT !.calls = @ + 1, !.last = out]
             ELSE [io EXCEPT
                     !.calls = @ + 1,
                     !.last = out,
                     !.state = "returned",
                     !.ret = IF io.op = "read"
                             THEN virNetSocketReadWire(io.len, out)
                             ELSE virNetSocketWriteWire(io.len,
                                                        WriteOutcome(out)),
                     !.report = IF io.op = "read" THEN ReadWireReport(out)
                                ELSE WriteWireReport(out)]
    /\ UNCHANGED <<srvVars, notIoVars>>

InitWire ==
    /\ InitNoServer
    /\ InitWriteIdle
    /\ InitUnixIdle
    /\ InitIoIdle
    /\ InitRunIdle
    /\ InitTcpIdle
    /\ InitCuIdle
    /\ InitEvIdle
    /\ InitSgIdle
    /\ InitInhIdle
    /\ InitCcIdle
    /\ InitRegIdle
    /\ InitRdIdle
    /\ InitPxIdle
    /\ InitIhIdle
    /\ InitLkIdle

NextWire ==
    \/ \E op \in {"read", "write"}, len \in 1..MaxLen : WireCall(op, len)
    \/ \E out \in SysOutcomes(io.len) :
          /\ SysRetried(out) => io.calls < MaxEintr
          /\ WireSyscall(out)

SpecWire == InitWire /\ [][NextWire]_vars

\* ------------------------------------------------------------------ run loop
RunClients == 1..MaxRunConns

\* what the run loop's own steps leave alone
notRunVars == <<sockVars, ioVars, tcpVars, cuVars, evVars, sgVars, inhVars, ccVars, regVars, rdVars, pxVars, ihVars, lkVars>>

\* virNetServerAutoShutdown: the timeout is configured before the loop runs
virNetServerAutoShutdown(timeout) ==
    /\ pc = "idle"
    /\ last = "none"
    /\ autoShutdownTimeout' = timeout
    /\ last' = "AutoShutdown"
    /\ UNCHANGED <<srvVars, notRunVars, autoShutdownInhibitions, quit, quitBy,
                   timerActive, pc, why>>

\* virNetServerAddShutdownInhibition
virNetServerAddShutdownInhibition ==
    /\ pc # "returned"
    /\ autoShutdownInhibitions' = autoShutdownInhibitions + 1
    /\ last' = "AddInhibition"
    /\ UNCHANGED <<srvVars, notRunVars, autoShutdownTimeout, quit, quitBy,
                   timerActive, pc, why>>

\* virNetServerRemoveShutdownInhibition, by a caller that holds one
virNetServerRemoveShutdownInhibition ==
    /\ pc # "returned"
    /\ autoShutdownInhibitions > 0
    /\ autoShutdownInhibitions' = autoShutdownInhibitions - 1
    /\ last' = "RemoveInhibition"
    /\ UNCHANGED <<srvVars, notRunVars, autoShutdownTimeout, quit, quitBy,
                   timerActive, pc, why>>

\* virNetServerQuit
virNetServerQuit ==
    /\ pc # "returned"
    /\ quit' = TRUE
    /\ quitBy' = "Quit"
    /\ last' = "Quit"
    /\ UNCHANGED <<srvVars, notRunVars, autoShutdownTimeout,
                   autoShutdownInhibitions, timerActive, pc, why>>

\* A timer callback that sets the quit flag whatever the counter is
AutoShutdownQuitAlways(inhibitions) == TRUE

\* virNetServerAutoShutdownTimer, line 1052: if (!srv->autoShutdownInhibitions)
AutoShutdownQuit(inhibitions) == inhibitions = 0

\* virNetServerAutoShutdownTimer: the armed timer expires while the event
\* loop runs (the timer is periodic: it stays armed)
virNetServerAutoShutdownTimer ==
    /\ pc = "events"
    /\ autoShutdownTimeout # 0
    /\ timerActive
    /\ quit' = (AutoShutdownQuit(autoShutdownInhibitions) \/ quit)
    /\ quitBy' = IF AutoShutdownQuit(autoShutdownInhibitions)
                 THEN "timer" ELSE quitBy
    /\ last' = "timer"
    /\ UNCHANGED <<srvVars, notRunVars, autoShutdownTimeout,
                   autoShutdownInhibitions, timerActive, pc, why>>

\* A timer update that arms and never disarms
TimerUpdateNoDisarm(timeout, active, cl) ==
    IF timeout = 0 THEN active ELSE active \/ cl = <<>>

\* virNetServerRun, lines 1103-1118: timerActive after the update at the
\* start of an iteration (virEventUpdateTimeout arms or disarms the timer
\* in the same branches)
TimerUpdate(timeout, active, cl) ==
    IF timeout = 0 THEN active
    ELSE IF active
         THEN (IF cl # <<>> THEN FALSE ELSE active)
         ELSE (IF cl = <<>> THEN TRUE ELSE active)

\* A loop test that never sees the flag
LoopEndsNever(q) == FALSE

\* A loop test that lets the loop end with the flag clear
LoopEndsAnyway(q) == TRUE

\* virNetServerRun, line 1098: while (!srv->quit), the loop ends
LoopEnds(q) == q

\* virNetServerRun from its call to the first virNetServerUnlock before
\* virEventRunDefaultImpl, or to its return from the cleanup label
RunEnter(mdnsOk, timerOk) ==
    /\ ~crashed
    /\ pc = "idle"
    /\ quit' = (IF mdnsOk THEN FALSE ELSE quit)
    /\ quitBy' = (IF mdnsOk THEN "none" ELSE quitBy)
    /\ last' = "Run"
    /\ IF ~mdnsOk
       THEN pc' = "returned" /\ why' = "mdns" /\ UNCHANGED timerActive
       ELSE IF autoShutdownTimeout # 0 /\ ~timerOk
       THEN pc' = "returned" /\ why' = "timer-register"
            /\ UNCHANGED timerActive
       ELSE /\ pc' = "events"
            /\ why' = "none"
            /\ timerActive' = TimerUpdate(autoShutdownTimeout, FALSE, clients)
    /\ UNCHANGED <<srvVars, notRunVars, autoShutdownTimeout,
                   autoShutdownInhibitions>>

\* virNetServerRun from the return of virEventRunDefaultImpl (evOk: it did
\* not fail) through the reaping pass, the loop test and the timer update
\* of the next iteration, to the next virNetServerUnlock or to the return
RunIteration(evOk) ==
    /\ ~crashed
    /\ pc = "events"
    /\ last' = "iteration"
    /\ IF ~evOk
       THEN /\ pc' = "returned"
            /\ why' = "loop-error"
            /\ UNCHANGED <<clients, nclients, client, timerActive>>
       ELSE LET st == Reprocess([clients |-> clients, nclients |-> nclients,
                                 client |-> client], 1)
            IN /\ clients' = st.clients
               /\ nclients' = st.nclients
               /\ client' = st.client
               /\ IF LoopEnds(quit)
                  THEN /\ pc' = "returned"
                       /\ why' = "quit"
                       /\ UNCHANGED timerActive
                  ELSE /\ UNCHANGED <<pc, why>>
                       /\ timerActive' = TimerUpdate(autoShutdownTimeout,
                                                     timerActive, st.clients)
    /\ UNCHANGED <<workers, nclients_max, keepaliveInterval, keepaliveCount,
                   keepaliveRequired, services, programs, progRefs,
                   nextClient, msg, nextMsg, jobs, running, crashed,
                   restarts, preExec>>
    /\ UNCHANGED <<notRunVars, autoShutdownTimeout, autoShutdownInhibitions,
                   quit, quitBy>>

InitRun ==
    /\ workers = NoPool
    /\ nclients_max = MaxRunConns
    /\ keepaliveInterval = 5
    /\ keepaliveCount = 3
    /\ keepaliveRequired = FALSE
    /\ services = <<[cloexec |-> TRUE]>>
    /\ programs = <<>>
    /\ progRefs = [p \in ProgramIds |-> 1]
    /\ clients = <<>>
    /\ nclients = 0
    /\ client = [c \in RunClients |-> NoClient]
    /\ nextClient = 1
    /\ msg = [m \in Msgs |-> NoMsg]
    /\ nextMsg = 1
    /\ jobs = {}
    /\ running = [w \in Threads |-> Null]
    /\ crashed = FALSE
    /\ restarts = 0
    /\ preExec = NoPreExec
    /\ InitWriteIdle
    /\ InitUnixIdle
    /\ InitIoIdle
    /\ InitRunIdle
    /\ InitTcpIdle
    /\ InitCuIdle
    /\ InitEvIdle
    /\ InitSgIdle
    /\ InitInhIdle
    /\ InitCcIdle
    /\ InitRegIdle
    /\ InitRdIdle
    /\ InitPxIdle
    /\ InitIhIdle
    /\ InitLkIdle

\* the accept callback and the Connections' own errors run inside
\* virEventRunDefaultImpl; the other entry points are called by any thread
NextRun ==
    \/ virNetServerAutoShutdown(1)
    \/ /\ autoShutdownInhibitions < MaxInhibit
       /\ virNetServerAddShutdownInhibition
    \/ virNetServerRemoveShutdownInhibition
    \/ virNetServerQuit
    \/ virNetServerAutoShutdownTimer
    \/ \E mdnsOk, timerOk \in BOOLEAN : RunEnter(mdnsOk, timerOk)
    \/ \E evOk \in BOOLEAN : RunIteration(evOk)
    \/ /\ pc = "events"
       /\ virNetServerDispatchNewClient(1, TRUE, TRUE, TRUE)
    \/ /\ pc = "events"
       /\ \E c \in RunClients : ClientWantsClose(c)

SpecRun == InitRun /\ [][NextRun]_vars

\* an armed timer expires, and an iteration of the event loop that does
\* not fail returns
FairSpecRun ==
    /\ SpecRun
    /\ WF_vars(virNetServerAutoShutdownTimer)
    /\ WF_vars(RunIteration(TRUE))

\* ------------------------------------------------------- TCP listen, connect
\* getaddrinfo: a failure leaves no candidate, a success one or more
\* candidates; each candidate of a listen is given what happens to it:
\* "bound", bind fails with EADDRINUSE or with EACCES, or socket() fails
\* with EMFILE
ListenOutcomeKinds == {"bound", "EADDRINUSE", "EACCES", "EMFILE"}

\* each candidate of a connect: "connected", connect fails with
\* ECONNREFUSED or ETIMEDOUT, or socket() fails with EMFILE
ConnectOutcomeKinds == {"connected", "ECONNREFUSED", "ETIMEDOUT", "EMFILE"}

CandLists(kinds) == UNION {[1..n -> kinds] : n \in 1..MaxCands}

\* A resolution failure that is not looked at
ResolveIgnored(resolveOk) == FALSE

\* lines 239-245 and 456-462: if (e != 0)
ResolveFailed(resolveOk) == ~resolveOk

\* A final test that fails the call whenever some address was in use
ListenFailsAnyInUse(nsocks, addrInUse) == addrInUse

\* virNetSocketNewListenTCP, lines 314-315: if (nsocks == 0 && addrInUse)
ListenFails(nsocks, addrInUse) == nsocks = 0 /\ addrInUse

\* virNetSocketNewListenTCP, the error label, lines 326-331: the Sockets
\* made so far are released (their descriptors closed) and so is fd
ListenError(st, err) ==
    [ret |-> -1, socks |-> <<>>, error |-> err, open |-> {},
     log |-> st.log \o [k \in 1..Len(st.socks) |->
                            [ev |-> "close", fd |-> st.socks[k]]]
                    \o (IF st.fd # Null
                        THEN <<[ev |-> "close", fd |-> st.fd]>> ELSE <<>>)]

\* virNetSocketNewListenTCP, lines 247-324: the loop over the candidates
\* from candidate i, on st = [socks, addrInUse, fd, log] (a descriptor is
\* named by the index of its candidate), and the end of the function
RECURSIVE ListenLoop(_, _, _)
ListenLoop(cands, i, st) ==
    IF i > Len(cands)
    THEN IF ListenFails(Len(st.socks), st.addrInUse)
         THEN ListenError(st, "EADDRINUSE")
         ELSE [ret |-> 0, socks |-> st.socks, error |-> "none",
               open |-> {st.socks[k] : k \in 1..Len(st.socks)},
               log |-> st.log]
    ELSE IF cands[i] = "EMFILE"
    THEN ListenError([st EXCEPT !.fd = Null], "EMFILE")
    ELSE LET opened == [st EXCEPT
                          !.fd = i,
                          !.log = Append(@, [ev |-> "open", fd |-> i])]
         IN IF cands[i] = "bound"
            THEN ListenLoop(cands, i + 1,
                            [opened EXCEPT !.socks = Append(@, i),
                                           !.fd = Null])
            ELSE IF cands[i] # "EADDRINUSE"
            THEN ListenError(opened, cands[i])
            ELSE ListenLoop(cands, i + 1,
                            [opened EXCEPT
                               !.addrInUse = TRUE,
                               !.fd = Null,
                               !.log = Append(@, [ev |-> "close",
                                                  fd |-> i])])

\* virNetSocketNewListenTCP(nodename, service): what it returns
ListenTCP(resolveOk, cands) ==
    IF ResolveFailed(resolveOk)
    THEN [ret |-> -1, socks |-> <<>>, error |-> "resolve", open |-> {},
          log |-> <<>>]
    ELSE ListenLoop(cands, 1, [socks |-> <<>>, addrInUse |-> FALSE,
                               fd |-> Null, log |-> <<>>])

\* An errno kept from the first candidate that failed
SavedErrnoFirst(saved, errno) == IF saved = "ENOENT" THEN errno ELSE saved

\* virNetSocketNewConnectTCP, line 479: savedErrno = errno
SavedErrno(saved, errno) == errno

\* virNetSocketNewConnectTCP, lines 464-514: the loop over the candidates
\* from candidate i, with savedErrno and the log of descriptors so far,
\* and the rest of the function (afterOk: getsockname, getpeername and
\* virNetSocketNew succeed)
RECURSIVE ConnectLoop(_, _, _, _, _)
ConnectLoop(cands, i, saved, log, afterOk) ==
    IF i > Len(cands)
    THEN [ret |-> -1, socks |-> <<>>, error |-> saved, open |-> {},
          log |-> log]
    ELSE IF cands[i] = "EMFILE"
    THEN [ret |-> -1, socks |-> <<>>, error |-> "EMFILE", open |-> {},
          log |-> log]
    ELSE LET opened == Append(log, [ev |-> "open", fd |-> i])
             closed == Append(opened, [ev |-> "close", fd |-> i])
         IN IF cands[i] = "connected"
            THEN IF afterOk
                 THEN [ret |-> 0, socks |-> <<i>>, error |-> "none",
                       open |-> {i}, log |-> opened]
                 ELSE [ret |-> -1, socks |-> <<>>, error |-> "after",
                       open |-> {}, log |-> closed]
            ELSE ConnectLoop(cands, i + 1, SavedErrno(saved, cands[i]),
                             closed, afterOk)

\* virNetSocketNewConnectTCP(nodename, service): what it returns
ConnectTCP(resolveOk, cands, afterOk) ==
    IF ResolveFailed(resolveOk)
    THEN [ret |-> -1, socks |-> <<>>, error |-> "resolve", open |-> {},
          log |-> <<>>]
    ELSE ConnectLoop(cands, 1, "ENOENT", <<>>, afterOk)

\* A call of virNetSocketNewListenTCP
CallListenTCP(resolveOk, cands) ==
    /\ LET r == ListenTCP(resolveOk, cands)
       IN tcp' = [op |-> "listen", resolveOk |-> resolveOk, cands |-> cands,
                  afterOk |-> TRUE, ret |-> r.ret, socks |-> r.socks,
                  error |-> r.error, open |-> r.open, log |-> r.log]
    /\ UNCHANGED notTcpVars

\* A call of virNetSocketNewConnectTCP
CallConnectTCP(resolveOk, cands, afterOk) ==
    /\ LET r == ConnectTCP(resolveOk, cands, afterOk)
       IN tcp' = [op |-> "connect", resolveOk |-> resolveOk,
                  cands |-> cands, afterOk |-> afterOk, ret |-> r.ret,
                  socks |-> r.socks, error |-> r.error, open |-> r.open,
                  log |-> r.log]
    /\ UNCHANGED notTcpVars

InitTcp ==
    /\ InitNoServer
    /\ InitWriteIdle
    /\ InitUnixIdle
    /\ InitIoIdle
    /\ InitRunIdle
    /\ InitTcpIdle
    /\ InitCuIdle
    /\ InitEvIdle
    /\ InitSgIdle
    /\ InitInhIdle
    /\ InitCcIdle
    /\ InitRegIdle
    /\ InitRdIdle
    /\ InitPxIdle
    /\ InitIhIdle
    /\ InitLkIdle

NextTcp ==
    \/ CallListenTCP(FALSE, <<>>)
    \/ \E cands \in CandLists(ListenOutcomeKinds) : CallListenTCP(TRUE, cands)
    \/ CallConnectTCP(FALSE, <<>>, TRUE)
    \/ \E cands \in CandLists(ConnectOutcomeKinds), afterOk \in BOOLEAN :
          CallConnectTCP(TRUE, cands, afterOk)

SpecTcp == InitTcp /\ [][NextTcp]_vars

\* ---------------------------------------------------- UNIX connect, retries
\* virNetSocketNewConnectUNIX, line 556: retries < 20
MaxRetries == 20

ConnectErrnos == {"ECONNREFUSED", "ENOENT", "EACCES"}

\* A retry test without a bound
ConnectRetriedUnbounded(errno, spawnDaemon, retries) ==
    errno \in {"ECONNREFUSED", "ENOENT"} /\ spawnDaemon

\* virNetSocketNewConnectUNIX, lines 554-556: the failed connect is retried
ConnectRetried(errno, spawnDaemon, retries) ==
    errno \in {"ECONNREFUSED", "ENOENT"} /\ spawnDaemon
        /\ retries < MaxRetries

\* A delay that is the same before every retry
RetryDelayFlat(retries) == 1000 * 100

\* virNetSocketNewConnectUNIX, line 564: usleep(1000 * 100 * retries), in
\* microseconds, with retries already incremented
RetryDelay(retries) == 1000 * 100 * retries

\* the error label, lines 585-587: the descriptor, if any, is closed
ConnectUNIXError(c, errno) ==
    [c EXCEPT !.state = "returned", !.ret = -1, !.errno = errno,
              !.fd = IF @ = "open" THEN "closed" ELSE @]

\* virNetSocketNewConnectUNIX from its call to the retry label, lines
\* 518-550 (binary: one is given; socketOk, pathOk: socket() succeeds and
\* the path fits sun_path)
ConnectUNIXEnter(spawnDaemon, binary, socketOk, pathOk) ==
    /\ cu.state # "connecting"
    /\ LET c == [NoCu EXCEPT !.spawnDaemon = spawnDaemon]
       IN cu' = IF spawnDaemon /\ ~binary
                THEN [c EXCEPT !.state = "returned", !.ret = -1,
                               !.errno = "no-binary"]
                ELSE IF ~socketOk
                THEN ConnectUNIXError(c, "EMFILE")
                ELSE IF ~pathOk
                THEN ConnectUNIXError([c EXCEPT !.fd = "open"], "ENOMEM")
                ELSE [c EXCEPT !.state = "connecting", !.fd = "open"]
    /\ UNCHANGED notCuVars

\* One pass from the retry label, lines 552-583: the connect, then either
\* the return, or the spawn (forkOk), the sleep and the jump back
ConnectUNIXAttempt(out, forkOk, afterOk) ==
    /\ cu.state = "connecting"
    /\ LET c == [cu EXCEPT !.attempts = @ + 1]
       IN cu' =
          IF out = "connected"
          THEN IF afterOk
               THEN [c EXCEPT !.state = "returned", !.ret = 0,
                              !.errno = "none"]
               ELSE ConnectUNIXError(c, "after")
          ELSE IF ConnectRetried(out, c.spawnDaemon, c.retries)
          THEN IF c.retries = 0 /\ ~forkOk
               THEN ConnectUNIXError([c EXCEPT !.forkFailed = TRUE], out)
               ELSE [c EXCEPT
                       !.spawns = IF c.retries = 0 THEN @ + 1 ELSE @,
                       !.retries = @ + 1,
                       !.errno = out,
                       !.delays = Append(@, RetryDelay(c.retries + 1))]
          ELSE ConnectUNIXError(c, out)
    /\ UNCHANGED notCuVars

InitCu ==
    /\ InitNoServer
    /\ InitWriteIdle
    /\ InitUnixIdle
    /\ InitIoIdle
    /\ InitRunIdle
    /\ InitTcpIdle
    /\ InitCuIdle
    /\ InitEvIdle
    /\ InitSgIdle
    /\ InitInhIdle
    /\ InitCcIdle
    /\ InitRegIdle
    /\ InitRdIdle
    /\ InitPxIdle
    /\ InitIhIdle
    /\ InitLkIdle

NextCu ==
    \/ \E spawnDaemon, binary, socketOk, pathOk \in BOOLEAN :
          ConnectUNIXEnter(spawnDaemon, binary, socketOk, pathOk)
    \/ \E out \in ConnectErrnos \cup {"connected"}, forkOk, afterOk \in BOOLEAN :
          ConnectUNIXAttempt(out, forkOk, afterOk)

SpecCu == InitCu /\ [][NextCu]_vars

\* connect(2) returns: each pass from the retry label is completed
FairSpecCu ==
    /\ SpecCu
    /\ WF_vars(\E out \in ConnectErrnos \cup {"connected"},
                  forkOk, afterOk \in BOOLEAN :
                  ConnectUNIXAttempt(out, forkOk, afterOk))

\* -------------------------------------------------------- event registration
Callbacks == {1, 2}
EventSets == {1, 2, 3}      \* readable, writable, both

\* A test that never sees a registration
WatchRegisteredNever(watch) == FALSE

\* virNetSocketAddIOCallback, line 1671: if (sock->watch > 0)
WatchRegistered(watch) == watch > 0

\* virEventAddHandle: the watch of the new handle (the handles of the loop
\* are numbered from 1), or -1
virEventAddHandle(handles, addOk) == IF addOk THEN Len(handles) + 1 ELSE -1

\* virNetSocketAddIOCallback(sock, events, func, opaque, ff), with func,
\* opaque and ff those of callback cb
virNetSocketAddIOCallback(events, cb, addOk) ==
    /\ ev.refs > 0
    /\ LET e == [ev EXCEPT !.adds = @ + 1, !.op = "add"]
       IN ev' =
          IF WatchRegistered(ev.watch)
          THEN [e EXCEPT !.ret = -1]
          ELSE LET w == virEventAddHandle(ev.handles, addOk)
               IN IF w < 0
                  THEN [e EXCEPT !.watch = w, !.ret = -1]
                  ELSE [e EXCEPT
                          !.watch = w,
                          !.handles = Append(@, [state |-> "active",
                                                 events |-> events]),
                          !.refs = @ + 1,
                          !.func = cb, !.opaque = cb, !.ff = cb,
                          !.ret = 0]
    /\ UNCHANGED notEvVars

\* virNetSocketUpdateIOCallback
virNetSocketUpdateIOCallback(events) ==
    /\ ev.refs > 0
    /\ ev' = IF ev.watch <= 0 THEN [ev EXCEPT !.op = "update"]
             ELSE [ev EXCEPT
                     !.op = "update",
                     !.handles[ev.watch] =
                         IF @.state = "active"
                         THEN [@ EXCEPT !.events = events] ELSE @]
    /\ UNCHANGED notEvVars

\* virNetSocketRemoveIOCallback: virEventRemoveHandle marks the handle as
\* deleted, its free callback runs later in the loop; sock->watch is kept
virNetSocketRemoveIOCallback ==
    /\ ev.refs > 0
    /\ ev' = IF ev.watch <= 0 THEN [ev EXCEPT !.op = "remove"]
             ELSE [ev EXCEPT
                     !.op = "remove",
                     !.handles[ev.watch] =
                         IF @.state = "active"
                         THEN [@ EXCEPT !.state = "deleted"] ELSE @]
    /\ UNCHANGED notEvVars

\* virNetSocketEventFree, called by the event loop for the deleted handle h
virNetSocketEventFree(h) ==
    /\ h \in 1..Len(ev.handles)
    /\ ev.handles[h].state = "deleted"
    /\ ev' = [ev EXCEPT !.op = "free",
                        !.handles[h].state = "freed",
                        !.func = Null, !.ff = Null, !.opaque = Null,
                        !.refs = @ - 1]
    /\ UNCHANGED notEvVars

InitEv ==
    /\ InitNoServer
    /\ InitWriteIdle
    /\ InitUnixIdle
    /\ InitIoIdle
    /\ InitRunIdle
    /\ InitTcpIdle
    /\ InitCuIdle
    /\ InitEvIdle
    /\ InitSgIdle
    /\ InitInhIdle
    /\ InitCcIdle
    /\ InitRegIdle
    /\ InitRdIdle
    /\ InitPxIdle
    /\ InitIhIdle
    /\ InitLkIdle

NextEv ==
    \/ \E events \in EventSets, cb \in Callbacks, addOk \in BOOLEAN :
          /\ ev.adds < MaxAdds
          /\ virNetSocketAddIOCallback(events, cb, addOk)
    \/ \E events \in EventSets : virNetSocketUpdateIOCallback(events)
    \/ virNetSocketRemoveIOCallback
    \/ \E h \in 1..MaxAdds : virNetSocketEventFree(h)

SpecEv == InitEv /\ [][NextEv]_vars

\* ------------------------------------------------------------------ signals
Signums == {1, 2}
SignalFuncs == {1, 2}
HandlerThreads == {"reactor", "worker"}

\* the first slot registered for signum is found by a scan from slot i that
\* never meets a NULL slot: the index, 0 if none, -1 if a NULL slot is
\* dereferenced (lines 888-896)
RECURSIVE SignalMatchFrom(_, _, _)
SignalMatchFrom(signals, signum, i) ==
    IF i > Len(signals) THEN 0
    ELSE IF signals[i] = NoSignal THEN -1
    ELSE IF signals[i].signum = signum THEN i
    ELSE SignalMatchFrom(signals, signum, i + 1)

\* safewrite(sigWrite, ...), line 861: the pipe is non-blocking (912), a
\* write into a full pipe fails
PipeWriteOk(pipe) == Len(pipe) < PipeCap

\* virNetServerSignalHandler(sig), run on the thread the signal is delivered
\* to
virNetServerSignalHandler(sig, thread) ==
    /\ ~sg.crashed
    /\ sig \in sg.installed
    /\ sg' = IF PipeWriteOk(sg.pipe)
             THEN [sg EXCEPT !.delivered = Append(@, [signum |-> sig,
                                                      thread |-> thread]),
                             !.pipe = Append(@, sig)]
             ELSE [sg EXCEPT !.delivered = Append(@, [signum |-> sig,
                                                      thread |-> thread]),
                             !.sigErrors = @ + 1]
    /\ UNCHANGED notSgVars

\* virNetServerSignalEvent, the callback of the reactor for the read end of
\* the pipe
virNetServerSignalEvent(readOk) ==
    /\ ~sg.crashed
    /\ sg.sigwatch > 0
    /\ sg.pipe # <<>>
    /\ sg' =
         IF ~readOk
         THEN [sg EXCEPT !.sigwatch = -1]
         ELSE LET signum == Head(sg.pipe)
                  i == SignalMatchFrom(sg.signals, signum, 1)
              IN IF i < 0
                 THEN [sg EXCEPT !.pipe = Tail(@), !.crashed = TRUE]
                 ELSE IF i = 0
                 THEN [sg EXCEPT !.pipe = Tail(@)]
                 ELSE [sg EXCEPT
                         !.pipe = Tail(@),
                         !.invoked = Append(@, [signum |-> signum,
                                                func |-> sg.signals[i].func,
                                                thread |-> "reactor"])]
    /\ UNCHANGED notSgVars

\* virNetServerSignalSetup: the state with the pipe and its watch, or the
\* state unchanged when pipe2 or virEventAddHandle fails
virNetServerSignalSetup(st, setupOk) ==
    IF st.sigwrite # -1 THEN st
    ELSE IF setupOk THEN [st EXCEPT !.sigwatch = 1, !.sigwrite = 1]
    ELSE st

\* virNetServerAddSignalHandler(srv, signum, func, opaque). After a failed
\* setup or VIR_EXPAND_N the error label frees sigdata, which was never
\* assigned (977): the call returns -1 or the process ends (ub)
virNetServerAddSignalHandler(signum, func, setupOk, expandOk, allocOk, ub) ==
    /\ ~sg.crashed
    /\ LET s0 == [sg EXCEPT !.adds = @ + 1]
           s1 == virNetServerSignalSetup(s0, setupOk)
       IN sg' =
          IF s1.sigwrite = -1
          THEN IF ub = "return" THEN [s1 EXCEPT !.ret = -1]
               ELSE [s1 EXCEPT !.crashed = TRUE]
          ELSE IF ~expandOk
          THEN IF ub = "return" THEN [s1 EXCEPT !.ret = -1]
               ELSE [s1 EXCEPT !.crashed = TRUE]
          ELSE IF ~allocOk
          THEN [s1 EXCEPT !.signals = Append(@, NoSignal), !.ret = -1]
          ELSE [s1 EXCEPT
                  !.signals = Append(@, [signum |-> signum, func |-> func]),
                  !.installed = @ \cup {signum},
                  !.ret = 0]
    /\ UNCHANGED notSgVars

InitSg ==
    /\ InitNoServer
    /\ InitWriteIdle
    /\ InitUnixIdle
    /\ InitIoIdle
    /\ InitRunIdle
    /\ InitTcpIdle
    /\ InitCuIdle
    /\ InitEvIdle
    /\ InitSgIdle
    /\ InitInhIdle
    /\ InitCcIdle
    /\ InitRegIdle
    /\ InitRdIdle
    /\ InitPxIdle
    /\ InitIhIdle
    /\ InitLkIdle

NextSg ==
    \/ \E signum \in Signums, func \in SignalFuncs,
          setupOk, expandOk, allocOk \in BOOLEAN, ub \in {"return", "crash"} :
          /\ sg.adds < MaxSigAdds
          /\ virNetServerAddSignalHandler(signum, func, setupOk, expandOk,
                                          allocOk, ub)
    \/ \E sig \in Signums, thread \in HandlerThreads :
          /\ Len(sg.delivered) < MaxDeliveries
          /\ virNetServerSignalHandler(sig, thread)
    \/ \E readOk \in BOOLEAN : virNetServerSignalEvent(readOk)

SpecSg == InitSg /\ [][NextSg]_vars

\* ------------------------------------------------- concurrent inhibitions
\* a lock that any thread gets at once
LockFreeAlways(lock) == TRUE

\* virMutexLock(&srv->lock), line 132: the caller goes on when no thread
\* holds the lock
LockFree(lock) == lock = NoOwner

\* thread t calls virNetServerAddShutdownInhibition (op "add"),
\* virNetServerRemoveShutdownInhibition (op "remove", by a thread that holds
\* an inhibition) or, as the reactor, virNetServerAutoShutdownTimer (op
\* "timer")
InhCall(t, op) ==
    /\ inh.th[t].pc = "idle"
    /\ op = "timer" <=> t = TimerThread
    /\ op = "remove" => inh.th[t].held > 0
    /\ op = "add" => inh.calls < MaxInhCalls
    /\ inh' = [inh EXCEPT !.th[t].pc = "called", !.th[t].op = op,
                          !.calls = IF op = "add" THEN @ + 1 ELSE @]
    /\ UNCHANGED notInhVars

\* virNetServerLock(srv)
InhLock(t) ==
    /\ inh.th[t].pc = "called"
    /\ LockFree(inh.lock)
    /\ inh' = [inh EXCEPT !.lock = t, !.th[t].pc = "locked"]
    /\ UNCHANGED notInhVars

\* the read of srv->autoShutdownInhibitions, lines 808, 828 and 1052; the
\* timer callback sets the quit flag on 0
InhRead(t) ==
    /\ inh.th[t].pc = "locked"
    /\ inh' = IF inh.th[t].op = "timer"
              THEN [inh EXCEPT
                      !.th[t].pc = "written",
                      !.seen = Append(@, [value |-> inh.counter,
                                          adds |-> inh.adds,
                                          removes |-> inh.removes]),
                      !.quit = @ \/ AutoShutdownQuit(inh.counter)]
              ELSE [inh EXCEPT !.th[t].pc = "read",
                               !.th[t].tmp = inh.counter]
    /\ UNCHANGED notInhVars

\* the write of srv->autoShutdownInhibitions++ / --
InhWrite(t) ==
    /\ inh.th[t].pc = "read"
    /\ inh' = [inh EXCEPT
                 !.th[t].pc = "written",
                 !.counter = IF inh.th[t].op = "add"
                             THEN inh.th[t].tmp + 1
                             ELSE inh.th[t].tmp - 1]
    /\ UNCHANGED notInhVars

\* virNetServerUnlock(srv) and the return of the call
InhUnlock(t) ==
    /\ inh.th[t].pc = "written"
    /\ inh' = [inh EXCEPT
                 !.lock = NoOwner,
                 !.th[t] = [pc |-> "idle", op |-> "none", tmp |-> 0,
                            held |-> IF inh.th[t].op = "add"
                                     THEN inh.th[t].held + 1
                                     ELSE IF inh.th[t].op = "remove"
                                     THEN inh.th[t].held - 1
                                     ELSE inh.th[t].held],
                 !.adds = IF inh.th[t].op = "add" THEN @ + 1 ELSE @,
                 !.removes = IF inh.th[t].op = "remove" THEN @ + 1 ELSE @,
                 !.seen = IF inh.th[t].op = "timer" THEN <<>> ELSE @]
    /\ UNCHANGED notInhVars

InitInh ==
    /\ InitNoServer
    /\ InitWriteIdle
    /\ InitUnixIdle
    /\ InitIoIdle
    /\ InitRunIdle
    /\ InitTcpIdle
    /\ InitCuIdle
    /\ InitEvIdle
    /\ InitSgIdle
    /\ InitInhIdle
    /\ InitCcIdle
    /\ InitRegIdle
    /\ InitRdIdle
    /\ InitPxIdle
    /\ InitIhIdle
    /\ InitLkIdle

NextInh ==
    \/ \E t \in InhThreads \cup {TimerThread},
          op \in {"add", "remove", "timer"} : InhCall(t, op)
    \/ \E t \in InhThreads \cup {TimerThread} : InhLock(t)
    \/ \E t \in InhThreads \cup {TimerThread} : InhRead(t)
    \/ \E t \in InhThreads : InhWrite(t)
    \/ \E t \in InhThreads \cup {TimerThread} : InhUnlock(t)

SpecInh == InitInh /\ [][NextInh]_vars

\* ------------------------------------------------ connect through a command
\* descriptor numbers, above those of stdin, stdout and stderr
Fds == 1..(4 * MaxCmds)

\* the descriptor the kernel hands out: the lowest one not open
LowestFree(open) == CHOOSE fd \in Fds \ open : \A g \in Fds \ open : fd <= g

\* VIR_FORCE_CLOSE(fd): nothing for -1
ForceClose(open, fd) == open \ {fd}

\* virCommandAbort(cmd), virProcessAbort(pid): a child that was started is
\* killed and reaped
ProcessAbort(child) == IF child \in {"running", "exited"} THEN "reaped"
                       ELSE child

\* an error label that forgets the local end of the socket pair
ConnectCommandErrorKeepsSv0(open, sv, errfd) ==
    ForceClose(ForceClose(ForceClose(open, sv[2]), errfd[1]), errfd[2])

\* virNetSocketNewConnectCommand, the error label (lines 646-650): the
\* descriptors of the process after it
ConnectCommandError(open, sv, errfd) ==
    ForceClose(ForceClose(ForceClose(ForceClose(open, sv[1]), sv[2]),
                          errfd[1]), errfd[2])

\* virNetSocketNewConnectCommand(cmd, retsock), call i; fails names the step
\* that fails ("none": success), started tells whether a failed
\* virCommandRunAsync had started the child
virNetSocketNewConnectCommand(i, fails, started) ==
    /\ i = cc.calls + 1
    /\ i \in Cmds
    /\ LET sv0 == LowestFree(cc.open)
           sv1 == LowestFree(cc.open \cup {sv0})
           o1 == cc.open \cup {sv0, sv1}
           e0 == LowestFree(o1)
           e1 == LowestFree(o1 \cup {e0})
           o2 == o1 \cup {e0, e1}
           c0 == [cc EXCEPT !.calls = i]
       IN cc' =
          IF fails = "socketpair"
          THEN [c0 EXCEPT
                  !.open = ConnectCommandError(@, <<-1, -1>>, <<-1, -1>>),
                  !.child[i] = ProcessAbort(@),
                  !.ret = -1]
          ELSE IF fails = "pipe"
          THEN [c0 EXCEPT
                  !.open = ConnectCommandError(o1, <<sv0, sv1>>, <<-1, -1>>),
                  !.child[i] = ProcessAbort(@),
                  !.ret = -1]
          ELSE IF fails = "run"
          THEN [c0 EXCEPT
                  !.open = ConnectCommandError(o2, <<sv0, sv1>>, <<e0, e1>>),
                  !.child[i] = ProcessAbort(IF started THEN "running"
                                            ELSE "none"),
                  !.ret = -1]
          ELSE IF fails = "new"
          THEN [c0 EXCEPT
                  !.open = ConnectCommandError(
                               ForceClose(ForceClose(o2, sv1), e1),
                               <<sv0, -1>>, <<e0, -1>>),
                  !.child[i] = ProcessAbort("running"),
                  !.ret = -1]
          ELSE [c0 EXCEPT
                  !.open = ForceClose(ForceClose(o2, sv1), e1),
                  !.child[i] = "running",
                  !.socks[i] = [state |-> "live", fd |-> sv0, errfd |-> e0,
                                pid |-> i],
                  !.ret = 0]
    /\ UNCHANGED notCcVars

\* the child of call i ends by itself
ChildExits(i) ==
    /\ i \in Cmds
    /\ cc.child[i] = "running"
    /\ cc' = [cc EXCEPT !.child[i] = "exited"]
    /\ UNCHANGED notCcVars

\* virNetSocketDispose of the Socket of call i, lines 1026-1029
DisposeCommandSocket(i) ==
    /\ i \in Cmds
    /\ cc.socks[i].state = "live"
    /\ cc' = [cc EXCEPT
                !.open = ForceClose(ForceClose(@, cc.socks[i].fd),
                                    cc.socks[i].errfd),
                !.child[cc.socks[i].pid] = ProcessAbort(@),
                !.socks[i] = [@ EXCEPT !.state = "disposed", !.fd = -1,
                                       !.errfd = -1]]
    /\ UNCHANGED notCcVars

InitCc ==
    /\ InitNoServer
    /\ InitWriteIdle
    /\ InitUnixIdle
    /\ InitIoIdle
    /\ InitRunIdle
    /\ InitTcpIdle
    /\ InitCuIdle
    /\ InitEvIdle
    /\ InitSgIdle
    /\ InitInhIdle
    /\ InitCcIdle
    /\ InitRegIdle
    /\ InitRdIdle
    /\ InitPxIdle
    /\ InitIhIdle
    /\ InitLkIdle

NextCc ==
    \/ \E i \in Cmds, started \in BOOLEAN,
          fails \in {"socketpair", "pipe", "run", "new", "none"} :
          virNetSocketNewConnectCommand(i, fails, started)
    \/ \E i \in Cmds : ChildExits(i)
    \/ \E i \in Cmds : DisposeCommandSocket(i)

SpecCc == InitCc /\ [][NextCc]_vars

\* ------------------------------------------------------------ registration
\* VIR_EXPAND_N(array, count, 1): the array one slot longer, the new slot
\* zeroed, and the count raised; unchanged on failure
ExpandN(array, expandOk) == IF expandOk THEN Append(array, Null) ELSE array

\* virNetServerAddService(srv, svc, mdnsEntryName), mdns telling whether
\* mdnsEntryName is given
virNetServerAddServiceMDNS(svc, mdns, expandOk, mdnsOk) ==
    /\ reg.calls < MaxRegCalls
    /\ LET r0 == [reg EXCEPT !.calls = @ + 1]
           r1 == [r0 EXCEPT !.services = ExpandN(@, expandOk)]
           n == Len(r1.services)
       IN reg' =
          IF ~expandOk THEN [r1 EXCEPT !.ret = -1]
          ELSE IF mdns /\ ~mdnsOk THEN [r1 EXCEPT !.ret = -1]
          ELSE [r1 EXCEPT
                  !.mdnsEntries = IF mdns THEN Append(@, svc) ELSE @,
                  !.services[n] = svc,
                  !.svcRefs[svc] = @ + 1,
                  !.dispatcher = @ \cup {svc},
                  !.ret = 0]
    /\ UNCHANGED notRegVars

\* virNetServerAddClient(srv, client)
virNetServerAddClient(c, initOk, expandOk) ==
    /\ reg.calls < MaxRegCalls
    /\ LET r0 == [reg EXCEPT !.calls = @ + 1]
           res == AddClientResult(Len(reg.clients), reg.nclients_max,
                                  initOk, expandOk)
       IN reg' =
          IF res = "toomany" THEN [r0 EXCEPT !.ret = -1]
          ELSE IF res = "initfail" THEN [r0 EXCEPT !.ret = -1]
          ELSE IF res = "oom"
          THEN [r0 EXCEPT !.cliInit = @ \cup {c}, !.ret = -1]
          ELSE [r0 EXCEPT
                  !.cliInit = @ \cup {c},
                  !.clients = [ExpandN(@, TRUE)
                                 EXCEPT ![Len(reg.clients) + 1] = c],
                  !.cliRefs[c] = @ + 1,
                  !.ret = 0]
    /\ UNCHANGED notRegVars

InitReg ==
    /\ InitNoServer
    /\ InitWriteIdle
    /\ InitUnixIdle
    /\ InitIoIdle
    /\ InitRunIdle
    /\ InitTcpIdle
    /\ InitCuIdle
    /\ InitEvIdle
    /\ InitSgIdle
    /\ InitInhIdle
    /\ InitCcIdle
    /\ \E max \in 1..MaxRegObjs : reg = [NoReg EXCEPT !.nclients_max = max]
    /\ InitRdIdle
    /\ InitPxIdle
    /\ InitIhIdle
    /\ InitLkIdle

NextReg ==
    \/ \E svc \in RegObjs, mdns, expandOk, mdnsOk \in BOOLEAN :
          virNetServerAddServiceMDNS(svc, mdns, expandOk, mdnsOk)
    \/ \E c \in RegObjs, initOk, expandOk \in BOOLEAN :
          /\ \A i \in 1..Len(reg.clients) : reg.clients[i] # c
          /\ virNetServerAddClient(c, initOk, expandOk)

SpecReg == InitReg /\ [][NextReg]_vars

\* ------------------------------------------------------------ Socket reads
\* What virNetSASLSessionDecode keeps for its next call: the bytes after the
\* last chunk that arrived whole
RECURSIVE SaslRest(_)
SaslRest(w) ==
    IF w = <<>> \/ Len(w) < w[1] + 1 THEN w
    ELSE SaslRest(SubSeq(w, w[1] + 2, Len(w)))

\* What read(2) can answer for len bytes when the bytes of avail have
\* arrived: some of them, or EAGAIN or end of stream when there is none, or
\* a failure
ReadOutcomes(len, avail) ==
    [kind : {"ECONNRESET"}, n : {0}]
        \cup (IF avail = <<>>
              THEN [kind : {"EAGAIN"}, n : {0}] \cup [kind : {"count"}, n : {0}]
              ELSE [kind : {"count"}, n : 1..Min(len, Len(avail))])

\* A reader that goes to the wire on every call
SaslAlwaysRead(dec) == TRUE

\* virNetSocketReadSASL, line 1373: if (sock->saslDecoded == NULL)
SaslNeedsRead(dec) == dec = <<>>

\* virNetSocketReadSASL(sock, buf, len): the Socket after the call; ret is
\* the result and the bytes copied to buf are appended to returned
virNetSocketReadSASL(r, len, out, decOk) ==
    LET fresh == SaslNeedsRead(r.saslDecoded)
        encodedLen == virNetSocketReadWire(SaslMaxBuf, out)
        r0 == [r EXCEPT !.wireRead = fresh]
    IN IF fresh /\ encodedLen <= 0 THEN [r0 EXCEPT !.ret = encodedLen]
       ELSE IF fresh /\ ~decOk
       THEN [r0 EXCEPT !.inwire = SubSeq(@, encodedLen + 1, Len(@)),
                       !.ret = -1]
       ELSE LET input == r.partial \o SubSeq(r.inwire, 1, encodedLen)
                r1 == IF fresh
                      THEN [r0 EXCEPT
                              !.inwire = SubSeq(@, encodedLen + 1, Len(@)),
                              !.partial = SaslRest(input),
                              !.saslDecoded = SaslDecode(input),
                              !.saslDecodedLength = Len(SaslDecode(input)),
                              !.saslDecodedOffset = 0,
                              !.decodedAll = @ \o SaslDecode(input)]
                      ELSE r0
                got == r1.saslDecodedLength - r1.saslDecodedOffset
                n == Min(len, got)
                off == r1.saslDecodedOffset + n
                r2 == [r1 EXCEPT
                         !.returned = @ \o SubSeq(r1.saslDecoded,
                                                  r1.saslDecodedOffset + 1,
                                                  off),
                         !.saslDecodedOffset = off,
                         !.ret = n]
            IN IF off = r1.saslDecodedLength
               THEN [r2 EXCEPT !.saslDecoded = <<>>,
                               !.saslDecodedOffset = 0,
                               !.saslDecodedLength = 0]
               ELSE r2

\* virNetSocketRead, lines 1470-1475: the layer that the bytes come from
ReadLayer(r, len, out, decOk) ==
    IF saslSession THEN virNetSocketReadSASL(r, len, out, decOk)
    ELSE LET n == virNetSocketReadWire(len, out)
         IN IF n <= 0 THEN [r EXCEPT !.ret = n, !.wireRead = TRUE]
            ELSE [r EXCEPT !.ret = n, !.wireRead = TRUE,
                           !.returned = @ \o SubSeq(r.inwire, 1, n),
                           !.inwire = SubSeq(@, n + 1, Len(@))]

\* virNetSocketRead(sock, buf, len); the caller gives up on an error
virNetSocketRead(len, out, decOk) ==
    /\ rd.state = "reading"
    /\ LET r == ReadLayer(rd, len, out, decOk)
       IN rd' = IF r.ret < 0 THEN [r EXCEPT !.state = "error"] ELSE r
    /\ UNCHANGED notRdVars

\* the peer writes the chunk p, encoded by its SASL layer if there is one
\* (it sends MaxLen + 1 bytes at most)
PeerSends(p) ==
    /\ rd.state = "reading"
    /\ Len(rd.peerPlain) + Len(p) <= MaxLen + 1
    /\ rd' = [rd EXCEPT
                !.chunks = @ + 1,
                !.peerPlain = @ \o p,
                !.inwire = @ \o (IF saslSession
                                 THEN virNetSASLSessionEncode(p) ELSE p)]
    /\ UNCHANGED notRdVars

\* A caller is about to read from a plain or a SASL-layered Socket
InitRead ==
    /\ saslSession \in BOOLEAN
    /\ saslEncoded = <<>>
    /\ saslEncodedOffset = 0
    /\ saslEncodedLength = 0
    /\ wbuf = <<>>
    /\ woff = 0
    /\ wire = <<>>
    /\ wstate = "idle"
    /\ wzero = FALSE
    /\ rd = [NoRd EXCEPT !.state = "reading"]
    /\ InitPxIdle
    /\ InitIhIdle
    /\ InitLkIdle
    /\ InitNoServer
    /\ InitUnixIdle
    /\ InitIoIdle
    /\ InitRunIdle
    /\ InitTcpIdle
    /\ InitCuIdle
    /\ InitEvIdle
    /\ InitSgIdle
    /\ InitInhIdle
    /\ InitCcIdle
    /\ InitRegIdle

NextRead ==
    \/ \E len \in 1..MaxLen, decOk \in BOOLEAN :
          \E out \in ReadOutcomes(IF saslSession THEN SaslMaxBuf ELSE len,
                                  rd.inwire) :
              virNetSocketRead(len, out, decOk)
    \/ \E p \in {b \in Buffers : Len(b) <= SaslMaxBuf} : PeerSends(p)

\* The two directions of a Socket share the session and the lock, and no
\* field: a run writes a buffer or reads what the peer sends
InitSasl == InitWrite \/ InitRead

NextSasl == NextWrite \/ NextRead

SpecSasl == InitSasl /\ [][NextSasl]_vars

\* ------------------------------------------------ exec-restart of a Socket
DocFields == {"fd", "errfd", "pid", "isClient"}
SockAddrs == {1, 2}

\* the calls of virNetSocketPreExecRestart that can fail (lines 958-985)
PreExecSteps == {"object", "fd", "errfd", "pid", "isClient", "inherit",
                 "inheritErr"}

\* A serialisation that writes the pid where the error descriptor belongs
SockDocSwapped(o) ==
    [ok |-> TRUE, has |-> DocFields, fd |-> o.fd, errfd |-> o.pid,
     pid |-> o.errfd, isClient |-> o.client]

\* virNetSocketPreExecRestart, lines 961-971: the sub-document
SockDoc(o) ==
    [ok |-> TRUE, has |-> DocFields, fd |-> o.fd, errfd |-> o.errfd,
     pid |-> o.pid, isClient |-> o.client]

\* virNetSocketPreExecRestart, lines 973-985: the Socket after virSetInherit
\* on fd, and on errfd when there is one, given the step that fails
SockInherit(o, fails) ==
    IF fails = "inherit" THEN o
    ELSE IF fails = "inheritErr" /\ o.errfd # -1
    THEN [o EXCEPT !.cloexec = FALSE]
    ELSE [o EXCEPT !.cloexec = FALSE,
                   !.errCloexec = IF o.errfd # -1 THEN FALSE ELSE @]

\* whether the step that fails is reached (the session tests fail on their
\* own: sasl and tls are not inputs)
PreExecReached(o, fails) ==
    IF o.sasl \/ o.tls THEN FALSE
    ELSE IF fails = "inheritErr" THEN o.errfd # -1
    ELSE fails \in {"object", "fd", "errfd", "pid", "isClient", "inherit"}

\* virNetSocketPreExecRestart(sock)
SockPreExecRestart(fails) ==
    /\ px.state = "live"
    /\ LET o == px.sock
           failed == o.sasl \/ o.tls \/ PreExecReached(o, fails)
       IN px' =
          IF o.sasl \/ o.tls
          THEN [px EXCEPT !.state = "failed", !.before = o, !.ret = -1]
          ELSE IF failed /\ fails \notin {"inherit", "inheritErr"}
          THEN [px EXCEPT !.state = "failed", !.before = o, !.ret = -1]
          ELSE IF failed
          THEN [px EXCEPT !.state = "failed", !.before = o,
                          !.sock = SockInherit(o, fails), !.ret = -1]
          ELSE [px EXCEPT !.state = "serialised", !.before = o,
                          !.sock = SockInherit(o, "none"),
                          !.doc = SockDoc(o), !.ret = 0]
    /\ UNCHANGED notPxVars

\* the document that reaches the new image lacks a field
DocLoses(f) ==
    /\ px.state = "serialised"
    /\ f \in px.doc.has
    /\ Cardinality(px.doc.has) = 4
    /\ px' = [px EXCEPT !.doc.has = @ \ {f}]
    /\ UNCHANGED notPxVars

\* virNetSocketNewPostExecRestart, lines 896-916: a field is missing
PostExecMissing(doc) == DocFields \ doc.has # {}

\* getsockname(fd) and getpeername(fd): what the OS answers for the
\* descriptor of Socket o, which the new image inherited
GetSockName(o) == o.localAddr
GetPeerName(o) == o.remoteAddr

\* virNetSocketNewPostExecRestart(object): the Socket, or NoPxSock for NULL;
\* remoteAddr is filled by getsockname (line 923), as localAddr is (929)
SockNewPostExecRestart(doc, o, nameOk, newOk) ==
    IF PostExecMissing(doc) THEN NoPxSock
    ELSE IF ~nameOk THEN NoPxSock
    ELSE IF ~newOk THEN NoPxSock
    ELSE [NoPxSock EXCEPT !.exists = TRUE, !.fd = doc.fd,
                          !.errfd = doc.errfd, !.pid = doc.pid,
                          !.client = doc.isClient,
                          !.remoteAddr = GetSockName(o),
                          !.localAddr = GetSockName(o)]

\* the new image rebuilds the Socket from the document
SockPostExec(nameOk, newOk) ==
    /\ px.state = "serialised"
    /\ LET n == SockNewPostExecRestart(px.doc, px.sock, nameOk, newOk)
       IN px' = [px EXCEPT !.state = "rebuilt", !.new = n,
                           !.ret = IF n.exists THEN 0 ELSE -1]
    /\ UNCHANGED notPxVars

\* A Socket: listening or connected, of a spawned command or not, with or
\* without a session
InitPx ==
    /\ InitNoServer
    /\ InitWriteIdle
    /\ InitUnixIdle
    /\ InitIoIdle
    /\ InitRunIdle
    /\ InitTcpIdle
    /\ InitCuIdle
    /\ InitEvIdle
    /\ InitSgIdle
    /\ InitInhIdle
    /\ InitCcIdle
    /\ InitRegIdle
    /\ InitRdIdle
    /\ InitIhIdle
    /\ InitLkIdle
    /\ \E errfd \in {-1, 4}, pid \in {0, 9}, isClient, s, t \in BOOLEAN,
          la \in SockAddrs, ra \in SockAddrs \cup {0} :
          /\ (errfd # -1) = (pid # 0)
          /\ isClient = (ra # 0)
          /\ px = [NoPx EXCEPT
                     !.state = "live",
                     !.sock = [NoPxSock EXCEPT
                                 !.exists = TRUE, !.fd = 3, !.errfd = errfd,
                                 !.pid = pid, !.client = isClient,
                                 !.sasl = s, !.tls = t,
                                 !.localAddr = la, !.remoteAddr = ra]]

NextPx ==
    \/ \E fails \in PreExecSteps \cup {"none"} : SockPreExecRestart(fails)
    \/ \E f \in DocFields : DocLoses(f)
    \/ \E nameOk, newOk \in BOOLEAN : SockPostExec(nameOk, newOk)

SpecPx == InitPx /\ [][NextPx]_vars

\* ------------------------------------------- external shutdown inhibition
\* A test that makes the inhibit call on every added inhibition
InhibitCallOnEvery(counter) == TRUE

\* virNetServerAddShutdownInhibition, line 813:
\* if (srv->autoShutdownInhibitions == 1)
InhibitCallOnFirst(counter) == counter = 1

\* virNetServerCallInhibit: the Server after the call; busOk: there is a
\* system bus, msgOk: the message was allocated, sendOk:
\* dbus_connection_send_with_reply queued the call
virNetServerCallInhibit(st, busOk, msgOk, sendOk) ==
    IF ~busOk THEN st
    ELSE IF st.callingInhibit THEN st
    ELSE IF ~msgOk THEN st
    ELSE IF sendOk
    THEN [st EXCEPT !.callingInhibit = TRUE, !.outstanding = @ + 1]
    ELSE st

\* virNetServerAddShutdownInhibition, built with the system bus
IhAddShutdownInhibition(busOk, msgOk, sendOk) ==
    /\ LET st == [ih EXCEPT !.counter = @ + 1, !.adds = @ + 1, !.op = "add"]
       IN ih' = IF InhibitCallOnFirst(st.counter)
                THEN virNetServerCallInhibit(st, busOk, msgOk, sendOk)
                ELSE st
    /\ UNCHANGED notIhVars

\* virNetServerRemoveShutdownInhibition, by a caller that holds one
IhRemoveShutdownInhibition ==
    /\ ih.counter > 0
    /\ LET st == [ih EXCEPT !.counter = @ - 1, !.op = "remove"]
       IN ih' = IF st.counter = 0
                THEN [st EXCEPT !.open = @ \ {st.inhibitFd},
                                !.inhibitFd = -1,
                                !.zeroClosed =
                                    IF st.inhibitFd # -1 THEN @ + 1 ELSE @]
                ELSE st
    /\ UNCHANGED notIhVars

\* virNetServerGotInhibitReply for the outstanding call; kind: the reply
\* carries a descriptor, could not be stolen, or carries no descriptor (an
\* error or a timeout); the descriptor of the k-th reply is numbered k
virNetServerGotInhibitReply(kind) ==
    /\ ih.outstanding > 0
    /\ LET fd == ih.replies + 1
           st == [ih EXCEPT !.callingInhibit = FALSE, !.outstanding = @ - 1,
                            !.replies = @ + 1, !.op = "reply"]
       IN ih' = IF kind # "fd" THEN st
                ELSE IF st.counter # 0
                THEN [st EXCEPT !.inhibitFd = fd, !.open = @ \cup {fd}]
                ELSE [st EXCEPT !.lateClosed = @ + 1]
    /\ UNCHANGED notIhVars

InitIh ==
    /\ InitNoServer
    /\ InitWriteIdle
    /\ InitUnixIdle
    /\ InitIoIdle
    /\ InitRunIdle
    /\ InitTcpIdle
    /\ InitCuIdle
    /\ InitEvIdle
    /\ InitSgIdle
    /\ InitInhIdle
    /\ InitCcIdle
    /\ InitRegIdle
    /\ InitRdIdle
    /\ InitPxIdle
    /\ InitIhIdle
    /\ InitLkIdle

NextIh ==
    \/ \E busOk, msgOk, sendOk \in BOOLEAN :
          /\ ih.adds < MaxIhAdds
          /\ IhAddShutdownInhibition(busOk, msgOk, sendOk)
    \/ IhRemoveShutdownInhibition
    \/ \E kind \in {"fd", "null", "error"} : virNetServerGotInhibitReply(kind)

SpecIh == InitIh /\ [][NextIh]_vars

\* ------------------------------------------------------------------ locks
\* The positions of a thread. Waiting for the Server lock:
\*   "relock" (Run, line 1126), "dispatch-enter" (DispatchNewMessage, 223),
\*   "accept-enter" (AddClient, 268), "timer-enter" (AutoShutdownTimer,
\*   1050), "srvop-enter" (a Server operation called by a handler).
\* Waiting for the lock of Connection c: "reap", "accept", "reply".
\* Suspended: "poll" (virEventRunDefaultImpl), "handler" (the Program's
\* handler runs), "reply-locked" (the reply is handed to the Connection).
WantsServer == {"relock", "dispatch-enter", "accept-enter", "timer-enter",
                "srvop-enter"}
WantsConn == {"reap", "accept", "reply"}
Suspended == {"poll", "handler", "reply-locked"}

\* virNetServerDispatchNewMessage, line 231: if (srv->workers)
DispatchPooled(pooled) == pooled

\* virNetServerRun, line 1120: virNetServerUnlock before the event loop
LkRunUnlock ==
    /\ lk.th[Reactor].pc = "loop"
    /\ lk.srvLock = Reactor
    /\ lk' = [lk EXCEPT !.srvLock = NoOwner, !.th[Reactor].pc = "poll"]
    /\ UNCHANGED notLkVars

\* virEventRunDefaultImpl: it returns, or it calls the dispatcher of
\* Connection c, the accept callback for a new Connection c, or the timer
LkPollEvent(kind, c) ==
    /\ lk.th[Reactor].pc = "poll"
    /\ kind = "dispatch" => lk.frames < MaxLkFrames
    /\ lk' = [lk EXCEPT
                !.th[Reactor] =
                    [pc |-> CASE kind = "return" -> "relock"
                              [] kind = "dispatch" -> "dispatch-enter"
                              [] kind = "accept" -> "accept-enter"
                              [] OTHER -> "timer-enter",
                     c |-> c],
                !.frames = IF kind = "dispatch" THEN @ + 1 ELSE @]
    /\ UNCHANGED notLkVars

\* virNetServerLock(srv) by thread t
LkServerLock(t) ==
    /\ lk.th[t].pc \in WantsServer
    /\ lk.srvLock = NoOwner
    /\ lk' = [lk EXCEPT
                !.srvLock = t,
                !.th[t].pc = CASE lk.th[t].pc = "relock" -> "reap"
                               [] lk.th[t].pc = "dispatch-enter" -> "dispatch"
                               [] lk.th[t].pc = "accept-enter" -> "accept"
                               [] lk.th[t].pc = "timer-enter" -> "timer"
                               [] OTHER -> "srvop",
                !.th[t].c = IF lk.th[t].pc = "relock" THEN 1 ELSE @]
    /\ UNCHANGED notLkVars

\* virNetServerUnlock(srv) by thread t, at the end of DispatchNewMessage
\* (259), AddClient (294), AutoShutdownTimer (1057) or of the Server
\* operation that a handler called
LkServerUnlock(t) ==
    /\ lk.th[t].pc \in {"dispatch-done", "accept-done", "timer", "srvop"}
    /\ lk.srvLock = t
    /\ lk' = [lk EXCEPT
                !.srvLock = NoOwner,
                !.th[t].pc = IF lk.th[t].pc = "srvop" THEN "reply"
                             ELSE "poll"]
    /\ UNCHANGED notLkVars

\* virNetServerDispatchNewMessage, lines 231-255, under the Server lock:
\* the frame becomes a Job of the pool, or virNetServerProcessMsg is called
LkDispatch ==
    /\ lk.th[Reactor].pc = "dispatch"
    /\ lk' = IF DispatchPooled(lk.pooled)
             THEN [lk EXCEPT !.jobs = Append(@, lk.th[Reactor].c),
                             !.th[Reactor].pc = "dispatch-done"]
             ELSE [lk EXCEPT !.th[Reactor].pc = "handler"]
    /\ UNCHANGED notLkVars

\* virNetServerHandleJob, line 194: a worker takes a Job and calls
\* virNetServerProcessMsg
LkHandleJob(t) ==
    /\ t # Reactor
    /\ lk.th[t].pc = "idle"
    /\ lk.jobs # <<>>
    /\ lk' = [lk EXCEPT !.jobs = Tail(@),
                        !.th[t] = [pc |-> "handler", c |-> Head(lk.jobs)]]
    /\ UNCHANGED notLkVars

\* virNetServerProgramDispatch: the handler returns, or it calls a Server
\* operation that takes the Server lock (virNetServerQuit,
\* virNetServerAddShutdownInhibition); then the reply goes to the
\* Connection
LkHandler(t, callsServer) ==
    /\ lk.th[t].pc = "handler"
    /\ callsServer => lk.srvops < MaxLkFrames
    /\ lk' = IF callsServer
             THEN [lk EXCEPT !.th[t].pc = "srvop-enter", !.srvops = @ + 1]
             ELSE [lk EXCEPT !.th[t].pc = "reply"]
    /\ UNCHANGED notLkVars

\* an operation of Connection c takes the lock of c
LkConnLock(t) ==
    /\ lk.th[t].pc \in WantsConn
    /\ lk.connLock[lk.th[t].c] = NoOwner
    /\ lk' = [lk EXCEPT
                !.connLock[lk.th[t].c] = t,
                !.th[t].pc = CASE lk.th[t].pc = "reap" -> "reap-locked"
                               [] lk.th[t].pc = "accept" -> "accept-locked"
                               [] OTHER -> "reply-locked"]
    /\ UNCHANGED notLkVars

\* the operation of Connection c returns: the reaping pass goes to the next
\* entry or ends (virNetServerRun, 1128-1149), AddClient goes on to its
\* unlock, DispatchNewMessage without a pool goes on to its unlock, a
\* worker has done its Job
LkConnUnlock(t) ==
    /\ lk.th[t].pc \in {"reap-locked", "accept-locked", "reply-locked"}
    /\ lk.connLock[lk.th[t].c] = t
    /\ lk' = [lk EXCEPT
                !.connLock[lk.th[t].c] = NoOwner,
                !.th[t] =
                    CASE lk.th[t].pc = "reap-locked" ->
                            IF lk.th[t].c < MaxLkConns
                            THEN [pc |-> "reap", c |-> lk.th[t].c + 1]
                            ELSE [pc |-> "loop", c |-> 1]
                      [] lk.th[t].pc = "accept-locked" ->
                            [pc |-> "accept-done", c |-> lk.th[t].c]
                      [] OTHER ->
                            [pc |-> IF t = Reactor THEN "dispatch-done"
                                    ELSE "idle",
                             c |-> lk.th[t].c]]
    /\ UNCHANGED notLkVars

\* virNetServerRun has taken the Server lock (line 1080) and is at the head
\* of its loop; the Server has a pool or not; the workers wait for Jobs
InitLk ==
    /\ InitNoServer
    /\ InitWriteIdle
    /\ InitUnixIdle
    /\ InitIoIdle
    /\ InitRunIdle
    /\ InitTcpIdle
    /\ InitCuIdle
    /\ InitEvIdle
    /\ InitSgIdle
    /\ InitInhIdle
    /\ InitCcIdle
    /\ InitRegIdle
    /\ InitRdIdle
    /\ InitPxIdle
    /\ InitIhIdle
    /\ \E pooled \in BOOLEAN :
          lk = [NoLk EXCEPT
                  !.pooled = pooled,
                  !.srvLock = Reactor,
                  !.th = [t \in LkThreads |->
                            [pc |-> IF t = Reactor THEN "loop" ELSE "idle",
                             c |-> 1]]]

NextLk ==
    \/ LkRunUnlock
    \/ \E kind \in {"return", "dispatch", "accept", "timer"}, c \in LkConns :
          LkPollEvent(kind, c)
    \/ \E t \in LkThreads : LkServerLock(t)
    \/ \E t \in LkThreads : LkServerUnlock(t)
    \/ LkDispatch
    \/ \E t \in LkThreads : LkHandleJob(t)
    \/ \E t \in LkThreads, callsServer \in BOOLEAN : LkHandler(t, callsServer)
    \/ \E t \in LkThreads : LkConnLock(t)
    \/ \E t \in LkThreads : LkConnUnlock(t)

SpecLk == InitLk /\ [][NextLk]_vars

\* ================================================================ properties
\* ---------------------------------------------------------------- capacity
\* a step of the accept callback
AcceptStep == nextClient' = nextClient + 1

\* C1: the collection never holds more than max_clients Connections (and
\* its count is its length); an accept appends its Connection only when
\* the count is strictly below max_clients, and then at the end, so that of
\* N+1 attempts the first N stay
C1_Capacity ==
    /\ [](nclients <= nclients_max /\ nclients = Len(clients))
    /\ [][AcceptStep =>
            /\ (clients' # clients =>
                    /\ nclients < nclients_max
                    /\ clients' = Append(clients, nextClient)
                    /\ nclients' = nclients + 1)
            /\ (nclients >= nclients_max => clients' = clients)
            /\ (client'[nextClient].ret = 0
                    <=> clients' = Append(clients, nextClient))]_vars

\* max_clients + 1 accepts were attempted with no reap: the first
\* max_clients are the collection, the last is not in it
C1_Witness ==
    /\ nclients_max = MaxClientsCfg
    /\ restarts = 0
    /\ nextClient = nclients_max + 2
    /\ clients = [i \in 1..nclients_max |-> i]
    /\ client[nclients_max + 1].created
    /\ \A i \in 1..nclients_max : client[i].ret = 0

\* C2: an accept that arrives at capacity returns an error, leaves the
\* collection and the count as they were, and the Connection it created has
\* no dispatcher, no keepalive, is closed, has no reference left and no
\* open descriptor
C2_RejectAtCapacity ==
    [][(AcceptStep /\ nclients >= nclients_max) =>
          LET o == client'[nextClient]
          IN /\ o.ret = -1
             /\ clients' = clients
             /\ nclients' = nclients
             /\ (o.created =>
                    /\ ~o.dispatcher
                    /\ o.keepalive = <<>>
                    /\ o.closed
                    /\ o.refs = 0
                    /\ o.disposed
                    /\ ~o.fdOpen)]_vars

\* a Connection created while the collection was full, turned away
C2_Witness ==
    \E c \in Clients :
        /\ client[c].created /\ client[c].ret = -1
        /\ client[c].closed /\ client[c].disposed
        /\ nclients_max > 0
        /\ nclients = nclients_max
        /\ \A i \in 1..nclients : clients[i] < c /\ client[clients[i]].ret = 0
        /\ restarts = 0

\* ------------------------------------------------------------------- jobs
\* C3: while a Job that names a Connection is queued or executing, the
\* Connection has a reference left and is not disposed
C3_JobHoldsReference ==
    \A m \in Msgs :
        msg[m].status \in {"queued", "running"} =>
            /\ client[msg[m].client].refs > 0
            /\ ~client[msg[m].client].disposed

C5_NothingHandedToSendPath ==
    \A m \in Msgs :
        (/\ msg[m].status = "done"
         /\ msg[m].prog = Null
         /\ msg[m].type \notin {"CALL", "CALL_WITH_FDS"})
        => msg[m].sent = <<>>

\* C5, amended: for a processed one-way frame that no Program matched, no
\* unknown-program error reply is sent; the frame itself, cleared and
\* retyped REPLY, is handed once to the send path of its Connection
C5_DummyReplyOnly ==
    \A m \in Msgs :
        (/\ msg[m].status = "done"
         /\ msg[m].prog = Null
         /\ msg[m].type \notin {"CALL", "CALL_WITH_FDS"})
        => msg[m].sent = <<"dummy_reply">>

\* an unmatched one-way frame has been processed
C5_Witness ==
    \E m \in Msgs :
        /\ msg[m].status = "done"
        /\ msg[m].prog = Null
        /\ msg[m].type = "MESSAGE"
        /\ msg[m].ret = 0

\* ----------------------------------------------------------- exec-restart
\* C6: the Server rebuilt from the document of a Server has the same
\* worker counts, max_clients, keepalive settings, Service count and
\* Connection count
C6_RoundTrip ==
    (preExec.done /\ preExec.ok) => preExec.new = preExec.old

\* a step of the exec-restart
RestartStep == restarts' = restarts + 1

\* C7: a Socket with a TLS or a SASL session has no sub-document, and an
\* exec-restart in which the serialisation of a Service or of a Connection
\* fails yields no document and rebuilds nothing
C7_SessionFailsWhole ==
    /\ [](\A c \in Clients :
            (client[c].created /\ (client[c].tls \/ client[c].sasl))
                => virNetSocketPreExecRestart(client[c], c) = NoSockDoc)
    /\ [][(/\ RestartStep
           /\ \/ (~preExec'.svcOk /\ Len(services) > 0)
              \/ \E i \in 1..nclients :
                    client[clients[i]].tls \/ client[clients[i]].sasl)
          => /\ ~preExec'.doc
             /\ ~preExec'.ok
             /\ UNCHANGED <<workers, nclients_max, clients, nclients>>]_vars

\* an exec-restart of a pooled Server was attempted with a TLS session on
\* a Connection of the collection, and gave no document
C7_Witness ==
    /\ HasPool /\ ~crashed
    /\ preExec.done /\ preExec.svcOk /\ ~preExec.doc
    /\ \E i \in 1..nclients :
          client[clients[i]].tls /\ ~client[clients[i]].sasl

\* ----------------------------------------------------------- Socket writes
\* C8: what the peer has received is always a prefix of the buffer (no
\* byte twice, none missing, in order), it is the whole buffer once the
\* caller is done, and when the wire eventually accepts bytes the caller
\* is eventually done unless a call fails; plain and SASL-layered alike
C8_WriteExactlyOnce ==
    /\ [](IsPrefix(PeerPlain, wbuf))
    /\ [](wstate = "done" => (PeerPlain = wbuf /\ woff = Len(wbuf)))
    /\ [](~saslSession => wire = SubSeq(wbuf, 1, woff))
    /\ <>(wstate = "error" \/ (wstate = "done" /\ PeerPlain = wbuf))

\* a buffer of several SASL chunks has arrived whole after a call that
\* returned 0
C8_Witness ==
    /\ saslSession
    /\ wzero
    /\ Len(wbuf) > SaslMaxBuf
    /\ wstate = "done"
    /\ PeerPlain = wbuf
    /\ wire # wbuf

\* ------------------------------------------------------------------ unlink
\* the Socket listens on a filename through virNetSocketNewListenUNIX
PathListener(o) ==
    o.state = "open" /\ First(o.listened) \notin {"@", "NUL"}

\* C9: Close or disposal of a Socket that listens on a filename, when no
\* earlier Close has removed it, leaves the filename absent; a Close whose
\* unlink succeeded notes it, and a later Close or disposal of the Socket
\* makes no unlink call and leaves the filesystem as it is
C9_CloseRemovesPath ==
    [][\A s \in Socks :
          (/\ uop'.s = s
           /\ uop'.name \in {"close", "dispose"}
           /\ PathListener(sock[s])) =>
             /\ (First(sock[s].sun_path) # "NUL"
                    => sock[s].listened \notin fs')
             /\ ((uop'.name = "close" /\ sock[s].sun_path \in fs)
                    => First(sock'[s].sun_path) = "NUL")
             /\ (First(sock[s].sun_path) = "NUL"
                    => (uop'.unlinks = <<>> /\ fs' = fs))]_vars

\* a listener was closed, which removed its filename, another Socket then
\* listened on the same filename, and the first was disposed: the filename
\* is still there
C9_Witness ==
    \E s, t \in Socks :
        /\ s # t
        /\ uop.name = "dispose" /\ uop.s = s
        /\ sock[s].state = "disposed"
        /\ First(sock[s].listened) = "/"
        /\ First(sock[s].sun_path) = "NUL"
        /\ sock[t].state = "open"
        /\ sock[t].listened = sock[s].listened
        /\ sock[t].listened \in fs

DispatchStep == nextMsg' = nextMsg + 1

\* C11: a Server built with max_workers = 0 never has a pool, a queued Job
\* or a running Job, and its dispatcher returns with the frame processed
\* (the Program's dispatch run, or the reply for no Program handed over);
\* with max_workers > 0 the dispatcher returns with the frame queued as a
\* Job (or dropped), nothing processed
C11_SyncProcessesInline ==
    /\ [](workers.maxWorkers = 0 =>
            /\ ~workers.exists
            /\ jobs = {}
            /\ \A w \in Threads : running[w] = Null
            /\ \A m \in Msgs : msg[m].status \in {"none", "done"})
    /\ [][DispatchStep =>
            LET f == msg'[nextMsg]
            IN IF workers.maxWorkers = 0
               THEN /\ f.status = "done"
                    /\ Len(f.sent) = 1
                    /\ (f.prog # Null <=> f.sent = <<"program_dispatch">>)
                    /\ jobs' = jobs
               ELSE /\ f.status \in {"queued", "dropped"}
                    /\ f.sent = <<>>
                    /\ (f.status = "queued" <=> nextMsg \in jobs')]_vars

\* a Server without a pool has run the dispatch of a Program for a frame
C11_Witness ==
    /\ workers.maxWorkers = 0
    /\ \E m \in Msgs :
          /\ msg[m].status = "done"
          /\ msg[m].prog # Null
          /\ msg[m].sent = <<"program_dispatch">>

\* ---------------------------------------------------------------- wire results
\* C12: on a socket without an SSH session, a Read or Write whose system
\* call answers EAGAIN returns 0 and reports no error; a system call that
\* EINTR interrupts is made again and its failure never reaches the caller;
\* a Read that meets end of stream (0 bytes) returns an error and never 0;
\* any other failure, and a Write of 0 bytes, returns an error; otherwise
\* the call returns the positive byte count
C12_WireResults ==
    /\ io.last.kind = "EINTR" => io.state = "calling"
    /\ io.state = "returned" =>
          /\ io.last.kind = "EAGAIN" => io.ret = 0 /\ io.report = "none"
          /\ io.last.kind = "ECONNRESET" =>
                io.ret = -1 /\ io.report = "ECONNRESET"
          /\ (io.last.kind = "count" /\ io.last.n = 0) =>
                io.ret = -1 /\ io.report = "EIO"
          /\ (io.last.kind = "count" /\ io.last.n > 0) =>
                io.ret = io.last.n /\ io.report = "none"
          /\ io.ret = 0 => io.last.kind = "EAGAIN"

\* a Read interrupted once and then at end of stream has returned
C12_Witness ==
    /\ io.op = "read"
    /\ io.state = "returned"
    /\ io.calls > 1
    /\ io.last = [kind |-> "count", n |-> 0]
    /\ io.ret = -1

\* ------------------------------------------------------------ auto-shutdown
\* a step of the accept callback or of a Connection marking itself
CallbackStep ==
    \/ nextClient' # nextClient
    \/ \E c \in RunClients : client'[c].wantClose # client[c].wantClose

\* a step of virNetServerRun that ends at the unlock before the event loop
\* runs: the start of an iteration is behind it
IterationStarts ==
    last' \in {"Run", "iteration"} /\ pc' = "events" /\ ~CallbackStep

\* C13: while an auto-shutdown timeout is configured, the start of each
\* iteration of the run loop arms the timer if it is inactive and there is
\* no Connection, and disarms it if it is active and there is at least
\* one; after that point the timer is active exactly when the collection
\* is empty
C13_TimerFollowsClients ==
    [][(IterationStarts /\ pc # "returned" /\ autoShutdownTimeout # 0) =>
          /\ (~timerActive /\ clients' = <<>>) => timerActive'
          /\ (timerActive /\ clients' # <<>>) => ~timerActive'
          /\ timerActive' <=> (clients' = <<>> /\ nclients' = 0)]_vars

\* the timer was armed, a Connection arrived, and the next iteration has
\* disarmed it
C13_Witness ==
    /\ autoShutdownTimeout # 0
    /\ pc = "events"
    /\ last = "iteration"
    /\ ~timerActive
    /\ nclients = 1
    /\ \E c \in RunClients : client[c].closed

\* a step of virNetServerAutoShutdownTimer
TimerStep == last' = "timer" /\ ~CallbackStep

\* no Connection, no inhibition, a timeout configured and the loop running
\* or returned
IdleUninhibited ==
    /\ autoShutdownTimeout # 0
    /\ pc # "idle"
    /\ nclients = 0
    /\ autoShutdownInhibitions = 0

\* C14: when the auto-shutdown timer expires, the quit flag is set if and
\* only if the inhibition counter is zero; virNetServerRun never returns
\* because of the timer while the counter is non-zero at expiry; and with a
\* timeout configured, once there is no Connection and the counter stays
\* zero, virNetServerRun eventually returns
C14_AutoShutdown ==
    /\ [][TimerStep =>
            /\ autoShutdownInhibitions = 0 => (quit' /\ quitBy' = "timer")
            /\ autoShutdownInhibitions # 0 =>
                  (quit' = quit /\ quitBy' = quitBy /\ pc' = pc)]_vars
    /\ [][(quitBy' = "timer" /\ quitBy # "timer") =>
            (TimerStep /\ autoShutdownInhibitions = 0)]_vars
    /\ (<>[]IdleUninhibited) => <>(pc = "returned")

\* the timer expired with no inhibition and the loop returned on the flag
C14_Witness ==
    /\ pc = "returned"
    /\ why = "quit"
    /\ quitBy = "timer"
    /\ autoShutdownInhibitions = 0
    /\ nclients = 0

ReapStep ==
    /\ pc = "events"
    /\ last' = "iteration"
    /\ why' # "loop-error"
    /\ ~CallbackStep

Reapable(c) == client[c].wantClose \/ client[c].closed

C17_FirstMatchWins ==
    /\ [][programs' # programs =>
            \E p \in ProgramIds : programs' = Append(programs, p)]_vars
    /\ [][DispatchStep =>
            LET f == msg'[nextMsg]
                hits == {i \in 1..Len(programs) :
                            virNetServerProgramMatches(programs[i], f.key)}
            IN /\ hits = {} => (f.prog = Null /\ f.priority = 0)
               /\ hits # {} =>
                     \E i \in hits : /\ \A j \in hits : i <= j
                                     /\ f.prog = programs[i]
               /\ (f.status = "queued" /\ f.prog # Null) =>
                     f.priority = virNetServerProgramGetPriority(f.prog)]_vars

\* Program 2 was registered before Program 1, both match key 1, and the
\* Job of a frame with key 1 is queued for Program 2
C17_Witness ==
    /\ programs = <<2, 1>>
    /\ \E m \in Msgs : /\ msg[m].status = "queued"
                       /\ msg[m].key = 1
                       /\ msg[m].prog = 2
                       /\ m \in jobs

\* --------------------------------------------------------------- TCP listen
\* the candidates of the call with the given outcome, in candidate order
CandsWith(kind) == SelectSeq([k \in 1..Len(tcp.cands) |-> k],
                             LAMBDA k : tcp.cands[k] = kind)

\* a call of virNetSocketNewListenTCP whose candidates either bind or fail
\* to bind with "address in use"
ListenOnlyInUse ==
    /\ tcp.op = "listen"
    /\ tcp.resolveOk
    /\ \A k \in 1..Len(tcp.cands) : tcp.cands[k] \in {"bound", "EADDRINUSE"}

\* C18: when the only bind failures of the candidates are "address in
\* use": if at least one candidate binds, the call succeeds with exactly
\* one Socket per bound candidate, in candidate order, and the descriptors
\* of the candidates that failed are closed; if every candidate fails, the
\* call fails with the address-in-use error and returns no Socket
C18_ListenSkipsInUse ==
    ListenOnlyInUse =>
        IF CandsWith("bound") # <<>>
        THEN /\ tcp.ret = 0
             /\ tcp.error = "none"
             /\ tcp.socks = CandsWith("bound")
             /\ tcp.open = {k \in 1..Len(tcp.cands) : tcp.cands[k] = "bound"}
             /\ \A k \in 1..Len(tcp.cands) :
                   tcp.cands[k] = "EADDRINUSE" =>
                       \E n \in 1..Len(tcp.log) :
                           tcp.log[n] = [ev |-> "close", fd |-> k]
        ELSE /\ tcp.ret = -1
             /\ tcp.error = "EADDRINUSE"
             /\ tcp.socks = <<>>
             /\ tcp.open = {}

\* the second of three candidates was in use, the other two are returned
C18_Witness ==
    /\ tcp.op = "listen"
    /\ tcp.cands = <<"bound", "EADDRINUSE", "bound">>
    /\ tcp.ret = 0
    /\ tcp.socks = <<1, 3>>

\* C19: a call of virNetSocketNewListenTCP that binds no Socket and meets
\* no address-in-use failure (no candidate was resolved, or the first one
\* failed otherwise) fails with an error of another kind; the call never
\* succeeds with zero Sockets
C19_NeverEmptySuccess ==
    tcp.op = "listen" =>
        /\ tcp.ret = 0 => (tcp.socks # <<>> /\ tcp.error = "none")
        /\ ~tcp.resolveOk =>
              (tcp.ret = -1 /\ tcp.error = "resolve" /\ tcp.socks = <<>>)
        /\ (tcp.socks = <<>> /\ CandsWith("EADDRINUSE") = <<>>) =>
              (tcp.ret = -1 /\ tcp.error \notin {"none", "EADDRINUSE"})
        /\ tcp.ret = -1 => (tcp.socks = <<>> /\ tcp.open = {})

\* the name did not resolve
C19_Witness ==
    /\ tcp.op = "listen"
    /\ ~tcp.resolveOk
    /\ tcp.ret = -1
    /\ tcp.error = "resolve"

\* -------------------------------------------------------------- TCP connect
\* a call of virNetSocketNewConnectTCP in which only connect() fails
ConnectOnlyRefused ==
    /\ tcp.op = "connect"
    /\ tcp.resolveOk
    /\ tcp.afterOk
    /\ \A k \in 1..Len(tcp.cands) : tcp.cands[k] # "EMFILE"

\* C20: virNetSocketNewConnectTCP tries the candidates in order and stops
\* at the first connect that succeeds, returning a Socket on it; the
\* descriptor of each candidate that failed is closed before the next one
\* is tried; if every candidate fails the call fails, reports the system
\* error of the last candidate tried, and leaves no descriptor open
C20_ConnectFirstSuccess ==
    ConnectOnlyRefused =>
        LET ok == CandsWith("connected")
            tried == IF ok # <<>> THEN ok[1] ELSE Len(tcp.cands)
        IN /\ \A n \in 1..Len(tcp.log) :
                 /\ tcp.log[n].fd <= tried
                 /\ (n % 2 = 1) => tcp.log[n] = [ev |-> "open",
                                                 fd |-> (n + 1) \div 2]
                 /\ (n % 2 = 0) => tcp.log[n] = [ev |-> "close",
                                                 fd |-> n \div 2]
           /\ IF ok # <<>>
              THEN /\ tcp.ret = 0
                   /\ tcp.socks = <<ok[1]>>
                   /\ tcp.open = {ok[1]}
                   /\ Len(tcp.log) = 2 * ok[1] - 1
              ELSE /\ tcp.ret = -1
                   /\ tcp.socks = <<>>
                   /\ tcp.error = tcp.cands[Len(tcp.cands)]
                   /\ tcp.open = {}
                   /\ Len(tcp.log) = 2 * Len(tcp.cands)

\* both candidates failed, each with its own error: the error reported is
\* the last one's
C20_Witness ==
    /\ tcp.op = "connect"
    /\ tcp.cands = <<"ECONNREFUSED", "ETIMEDOUT">>
    /\ tcp.ret = -1
    /\ tcp.error = "ETIMEDOUT"

\* ------------------------------------------------------ UNIX connect retries
\* C21: virNetSocketNewConnectUNIX with auto-spawn always terminates: the
\* daemon is spawned at most once per call, and only at the first refused
\* or absent-socket failure; the connect is retried at most 20 times (at
\* most 21 attempts); a connect error of another kind is never retried; a
\* spawn failure or the exhaustion of the retries ends the call with an
\* error and the descriptor closed; without auto-spawn there is one attempt
\* at most (exactly one once the descriptor exists) and no spawn
C21_SpawnRetryBounded ==
    /\ [](/\ cu.spawns <= 1
          /\ cu.retries <= 20
          /\ cu.attempts <= 21
          /\ cu.attempts <= cu.retries + 1
          /\ ~cu.spawnDaemon => (cu.spawns = 0 /\ cu.retries = 0))
    /\ [](cu.state = "returned" =>
            /\ cu.ret = -1 => cu.fd # "open"
            /\ cu.ret = 0 => cu.fd = "open"
            /\ cu.forkFailed => (cu.ret = -1 /\ cu.spawns = 0)
            /\ (~cu.spawnDaemon /\ cu.fd # "none"
                   /\ cu.errno # "ENOMEM") => cu.attempts = 1)
    /\ [][cu'.spawns > cu.spawns =>
            (cu.retries = 0 /\ cu.attempts = 0
               /\ cu'.errno \in {"ECONNREFUSED", "ENOENT"})]_vars
    /\ [][(cu'.attempts > cu.attempts /\ cu'.state = "connecting") =>
            (cu'.errno \in {"ECONNREFUSED", "ENOENT"} /\ cu.spawnDaemon
               /\ cu.retries < 20)]_vars
    /\ (cu.state = "connecting") ~> (cu.state = "returned")

\* the daemon was spawned once, twenty retries were refused, and the call
\* ended with an error and its descriptor closed
C21_Witness ==
    /\ cu.state = "returned"
    /\ cu.spawns = 1
    /\ cu.retries = 20
    /\ cu.attempts = 21
    /\ cu.ret = -1
    /\ cu.fd = "closed"

\* the delay before the k-th retry, in milliseconds
DelayMs(k) == cu.delays[k] \div 1000

\* C30 as stated: each delay before a retry is a constant factor greater
\* than 1 times the previous one
C30_ExponentialDelays ==
    \A k \in 2..Len(cu.delays) :
        /\ DelayMs(k) > DelayMs(k - 1)
        /\ k > 2 => DelayMs(k) * DelayMs(k - 2) = DelayMs(k - 1) * DelayMs(k - 1)

\* C30, amended: the delay before the k-th retry grows linearly with k, it
\* is k times 100 ms (each delay is 100 ms more than the previous one), and
\* it is bounded by 2 s because there are at most 20 retries
C30_LinearDelays ==
    /\ Len(cu.delays) = cu.retries
    /\ Len(cu.delays) <= 20
    /\ \A k \in 1..Len(cu.delays) :
          /\ cu.delays[k] = 100000 * k
          /\ cu.delays[k] <= 2000000
          /\ k > 1 => cu.delays[k] = cu.delays[k - 1] + 100000

\* the twentieth retry has waited 2 s
C30_Witness ==
    /\ Len(cu.delays) = 20
    /\ cu.delays[20] = 2000000
    /\ cu.delays[1] = 100000

\* -------------------------------------------------------- event registration
\* the handles of the Socket in the given state
HandlesIn(e, state) == {h \in 1..Len(e.handles) : e.handles[h].state = state}

\* C22: virNetSocketAddIOCallback on a Socket that has an active
\* registration fails and leaves the registration (watch, callback, opaque,
\* free function) and the reference count of the Socket unchanged; at most
\* one registration is active per Socket; each successful registration
\* holds exactly one reference of the Socket, released exactly once, when
\* the registration is freed
C22_OneRegistration ==
    /\ [](Cardinality(HandlesIn(ev, "active")) <= 1)
    /\ [](ev.refs = 1 + Cardinality(HandlesIn(ev, "active"))
                      + Cardinality(HandlesIn(ev, "deleted")))
    /\ [][(ev'.adds = ev.adds + 1 /\ HandlesIn(ev, "active") # {}) =>
            /\ ev'.ret = -1
            /\ ev'.watch = ev.watch
            /\ ev'.func = ev.func
            /\ ev'.opaque = ev.opaque
            /\ ev'.ff = ev.ff
            /\ ev'.refs = ev.refs
            /\ ev'.handles = ev.handles]_vars
    /\ [][(ev'.adds = ev.adds + 1 /\ ev'.ret = 0) =>
            /\ ev'.refs = ev.refs + 1
            /\ Len(ev'.handles) = Len(ev.handles) + 1]_vars
    /\ [][\A h \in 1..Len(ev.handles) :
            /\ ev.handles[h].state = "freed" => ev'.handles[h].state = "freed"
            /\ (ev.handles[h].state # "freed"
                  /\ ev'.handles[h].state = "freed") =>
                   ev'.refs = ev.refs - 1]_vars

\* a second virNetSocketAddIOCallback has failed on a registered Socket
C22_Witness ==
    /\ ev.op = "add"
    /\ ev.adds = 2
    /\ ev.ret = -1
    /\ HandlesIn(ev, "active") = {1}
    /\ ev.refs = 2

\* ------------------------------------------------------------------ signals
\* C23: each delivery of a registered signal puts one record into the
\* self-pipe and leads to exactly one invocation of the callback registered
\* for that signal number; the callbacks run on the reactor thread, in
\* delivery order. Every delivery made so far is either still a record of
\* the pipe or has been answered by its invocation, in the same order.
C23_EveryDeliveryInvoked ==
    /\ Len(sg.delivered) = Len(sg.invoked) + Len(sg.pipe)
    /\ \A k \in 1..Len(sg.invoked) :
          /\ k <= Len(sg.delivered)
          /\ sg.invoked[k].signum = sg.delivered[k].signum
          /\ sg.invoked[k].thread = "reactor"
    /\ \A k \in 1..Len(sg.pipe) :
          /\ Len(sg.invoked) + k <= Len(sg.delivered)
          /\ sg.pipe[k] = sg.delivered[Len(sg.invoked) + k].signum

\* ------------------------------------------------- concurrent inhibitions
\* the update of the thread that holds the lock and has written: its call
\* has not returned yet
InhInFlight ==
    IF \E t \in InhThreads : inh.th[t].pc = "written" /\ inh.th[t].op = "add"
    THEN 1
    ELSE IF \E t \in InhThreads :
               inh.th[t].pc = "written" /\ inh.th[t].op = "remove"
    THEN -1 ELSE 0

\* C24: under any interleaving of Add/RemoveShutdownInhibition calls of
\* several threads with the timer callback, no update is lost: the counter
\* equals the completed adds minus the completed removes (plus the update of
\* the one call that has written and not yet returned), and this is the
\* value the timer callback reads
C24_NoLostUpdate ==
    /\ inh.counter = inh.adds - inh.removes + InhInFlight
    /\ (\A t \in InhThreads : inh.th[t].pc = "idle") =>
           inh.counter = inh.adds - inh.removes
    /\ \A k \in 1..Len(inh.seen) :
           inh.seen[k].value = inh.seen[k].adds - inh.seen[k].removes

\* after two completed adds, a third add holds the lock and has written
\* while a remove and the timer callback wait for the lock
C24_Witness ==
    /\ inh.adds = 2
    /\ inh.th[1].pc = "written"
    /\ inh.th[1].op = "add"
    /\ inh.th[2].pc = "called"
    /\ inh.th[2].op = "remove"
    /\ inh.th[TimerThread].pc = "called"

\* ------------------------------------------------ connect through a command
LiveCmdSocks == {i \in Cmds : cc.socks[i].state = "live"}

\* C25: a connection through a spawned command never leaves a residual
\* descriptor or child: after a failed call every descriptor it opened is
\* closed and a started child is reaped; after a successful call the Socket
\* owns exactly the local end of the socket pair, the read end of the error
\* pipe and the pid of the child; disposing the Socket closes both
\* descriptors and reaps the child. So the open descriptors of the process
\* are those of the live Sockets, and the children not reaped are theirs.
C25_NoResidue ==
    /\ cc.open = UNION {{cc.socks[i].fd, cc.socks[i].errfd} :
                        i \in LiveCmdSocks}
    /\ \A i \in LiveCmdSocks :
          /\ cc.socks[i].fd # cc.socks[i].errfd
          /\ cc.socks[i].pid = i
          /\ \A j \in LiveCmdSocks \ {i} :
                {cc.socks[i].fd, cc.socks[i].errfd}
                  \cap {cc.socks[j].fd, cc.socks[j].errfd} = {}
    /\ \A i \in Cmds :
          cc.child[i] \in {"running", "exited"} <=> i \in LiveCmdSocks

\* a call has failed in virNetSocketNew after the child was started, between
\* a Socket that lives and one that was disposed
C25_Witness ==
    /\ cc.calls = 3
    /\ cc.ret = -1
    /\ cc.child[3] = "reaped"
    /\ cc.socks[1].state = "disposed"
    /\ cc.child[1] = "reaped"
    /\ cc.socks[2].state = "live"

\* ------------------------------------------------------ failed submission
\* C26: when the dispatcher of a pooled Server fails to submit the Job, it
\* returns with the Job gone and every reference taken for it released: the
\* reference counts of the Connection and of the matched Program are those
\* before the call, no Job is queued or running for the frame, and nothing
\* of the frame was processed (it is left to the caller)
C26_FailedSubmitReleases ==
    [][(DispatchStep /\ HasPool /\ msg'[nextMsg].ret = -1) =>
          LET f == msg'[nextMsg]
              c == f.client
          IN /\ client'[c].refs = client[c].refs
             /\ client'[c].disposed = client[c].disposed
             /\ progRefs' = progRefs
             /\ jobs' = jobs
             /\ running' = running
             /\ f.status = "dropped"
             /\ f.sent = <<>>]_vars

\* the submission of a Job for a frame of the Program with a priority has
\* failed, and the Program has the references it had: that of its creator
\* and that of the Server
C26_Witness ==
    \E m \in Msgs :
        /\ HasPool
        /\ msg[m].status = "dropped"
        /\ msg[m].prog = 1
        /\ msg[m].priority = 1
        /\ progRefs[1] = 2

\* ------------------------------------------------------ failed processing
\* C27: when the processing of a frame fails, the outcome is the same with
\* and without a pool: the Connection is closed or marked as wanting close,
\* the frame was freed exactly once, and the references that were held for
\* the processing (of the Connection, of the Program) were released exactly
\* once, none is owed and none was released that was not taken
C27_SameFailureOutcome ==
    \A m \in Msgs :
        (msg[m].status = "done" /\ msg[m].ret = -1) =>
            /\ \/ client[msg[m].client].closed
               \/ client[msg[m].client].wantClose
            /\ msg[m].freed = 1
            /\ msg[m].progHeld = 0
            /\ msg[m].held = 0

\* ------------------------------------------------------------ registration
\* C28: a failed registration of a Service or of a Connection leaves
\* nothing half-registered: the collection, its count and the reference
\* count of the object are as before the call, and every slot counted by the
\* size of a collection holds an object
C28_NothingHalfRegistered ==
    /\ [](\A i \in 1..Len(reg.services) : reg.services[i] # Null)
    /\ [](\A i \in 1..Len(reg.clients) : reg.clients[i] # Null)
    /\ [][(reg'.calls = reg.calls + 1 /\ reg'.ret = -1) =>
            /\ reg'.services = reg.services
            /\ reg'.svcRefs = reg.svcRefs
            /\ reg'.clients = reg.clients
            /\ reg'.cliRefs = reg.cliRefs]_vars

\* ------------------------------------------------------------ SASL buffers
\* C29: on a Socket with a SASL session there is at most one pending encoded
\* chunk and one pending decoded chunk, each with offset <= length, and
\* offset = length = 0 when the chunk is absent; Write encodes new plaintext
\* only when no encoded chunk is pending; Read goes to the wire and decodes
\* only when no decoded chunk is pending; and the bytes that Read has
\* returned, followed by the rest of the pending chunk, are the decoded
\* chunks in order, each byte once
C29_SaslBuffers ==
    /\ [](saslSession =>
            /\ saslEncodedOffset <= saslEncodedLength
            /\ saslEncodedLength = Len(saslEncoded)
            /\ saslEncoded = <<>> => saslEncodedOffset = 0
            /\ saslEncoded # <<>> => saslEncodedOffset < saslEncodedLength
            /\ rd.saslDecodedOffset <= rd.saslDecodedLength
            /\ rd.saslDecodedLength = Len(rd.saslDecoded)
            /\ rd.saslDecoded = <<>> => rd.saslDecodedOffset = 0
            /\ rd.returned
                 \o SubSeq(rd.saslDecoded, rd.saslDecodedOffset + 1,
                           rd.saslDecodedLength) = rd.decodedAll
            /\ IsPrefix(rd.decodedAll, rd.peerPlain))
    /\ [][(saslSession /\ saslEncoded # <<>> /\ wire' # wire) =>
            \E k \in 1..(saslEncodedLength - saslEncodedOffset) :
                wire' = wire \o SubSeq(saslEncoded, saslEncodedOffset + 1,
                                       saslEncodedOffset + k)]_vars
    /\ [][(saslSession /\ rd.saslDecoded # <<>>) =>
            /\ rd'.inwire = rd.inwire \/ rd'.chunks = rd.chunks + 1
            /\ rd'.decodedAll = rd.decodedAll
            /\ rd'.partial = rd.partial]_vars

\* Read has returned a decoded chunk in two calls, the second one without
\* going to the wire, after a call that brought only a part of a chunk
C29_Witness ==
    /\ saslSession
    /\ rd.chunks = 2
    /\ rd.partial # <<>>
    /\ rd.saslDecoded = <<>>
    /\ ~rd.wireRead
    /\ Len(rd.returned) = 2
    /\ rd.returned = rd.decodedAll

\* ---------------------------------------------------------------------- C31
\* C31: after a successful virNetSocketPreExecRestart the primary descriptor
\* of the Socket, and its error-stream descriptor when there is one, are
\* inheritable, and the sub-document carries the fd, errfd, pid and isClient
\* of the Socket; virNetSocketNewPostExecRestart on that sub-document yields
\* a Socket with the same fd, errfd, pid and client flag, and yields none
\* when one of the four fields is missing.
C31_SockRoundTrip ==
    /\ (px.state \in {"serialised", "rebuilt"}) =>
          /\ ~px.sock.cloexec
          /\ px.sock.errfd # -1 => ~px.sock.errCloexec
          /\ px.doc.ok
          /\ px.doc.fd = px.before.fd
          /\ px.doc.errfd = px.before.errfd
          /\ px.doc.pid = px.before.pid
          /\ px.doc.isClient = px.before.client
          /\ px.sock.fd = px.before.fd
          /\ px.sock.errfd = px.before.errfd
    /\ (px.state = "rebuilt" /\ px.new.exists) =>
          /\ px.doc.has = DocFields
          /\ px.new.fd = px.before.fd
          /\ px.new.errfd = px.before.errfd
          /\ px.new.pid = px.before.pid
          /\ px.new.client = px.before.client
    /\ (px.state = "rebuilt" /\ px.doc.has # DocFields) =>
          /\ ~px.new.exists
          /\ px.ret = -1

\* The Socket of a spawned command, with its error stream and its child,
\* has been serialised and rebuilt
C31_Witness ==
    /\ px.state = "rebuilt"
    /\ px.new.exists
    /\ px.before.errfd # -1
    /\ px.before.pid # 0
    /\ px.new.errfd = px.before.errfd
    /\ px.new.client

\* ---------------------------------------------------------------------- C39
\* C39: a failed serialisation changes nothing: after a
\* virNetSocketPreExecRestart that returned no sub-document, neither
\* descriptor of the Socket has had close-on-exec cleared.
C39_FailedSerialisationChangesNothing ==
    px.state = "failed" =>
        /\ px.sock.cloexec = px.before.cloexec
        /\ px.sock.errCloexec = px.before.errCloexec

\* ---------------------------------------------------------------------- C40
\* C40: the Socket rebuilt by virNetSocketNewPostExecRestart reports as its
\* local address the address the descriptor is bound to and as its remote
\* address the address of the peer; for a connected client Socket the
\* remote address is the one it had before the restart.
C40_RebuiltAddresses ==
    (px.state = "rebuilt" /\ px.new.exists) =>
        /\ px.new.localAddr = GetSockName(px.sock)
        /\ px.before.client =>
              /\ px.new.remoteAddr = GetPeerName(px.sock)
              /\ px.new.remoteAddr = px.before.remoteAddr
              /\ (px.before.localAddr # px.before.remoteAddr) =>
                    px.new.remoteAddr # px.new.localAddr

\* ---------------------------------------------------------------------- C35
\* C35: the call of virNetSocketWrite that flushes the rest of a pending
\* SASL-encoded chunk returns the number of plaintext bytes that were
\* encoded into that chunk, whatever length the caller offers on that call
\* (the first element of the encoded chunk is the length of its plaintext;
\* the caller advances its offset by the count returned).
C35_FlushReturnsEncodedCount ==
    [][(saslSession /\ saslEncoded # <<>> /\ saslEncoded' = <<>>
          /\ wstate' # "error") =>
            woff' - woff = saslEncoded[1]]_vars

\* ---------------------------------------------------------------------- C36
\* C36: once virNetSocketRemoveIOCallback has removed the registration of a
\* Socket, the Socket has no active registration, and a later
\* virNetSocketAddIOCallback succeeds: a call made while no handle of the
\* Socket is active returns 0, unless the event loop itself refuses the
\* handle (the watch is then negative).
C36_AddAfterRemoveSucceeds ==
    [][(ev'.adds = ev.adds + 1 /\ HandlesIn(ev, "active") = {}) =>
            \/ ev'.ret = 0
            \/ ev'.watch < 0]_vars

\* ---------------------------------------------------------------------- C37
\* C37 as stated: a quit request is never lost: after a virNetServerQuit
\* made before virNetServerRun is entered, or while it runs, Run returns
\* without a further Quit or a timer expiry, the event loop completing its
\* iterations.
C37_QuitNeverLost ==
    /\ [](pc = "idle" /\ quit /\ quitBy = "Quit" =>
            [](pc = "events" => <>(pc = "returned")))
    /\ (pc = "events" /\ quit) ~> (pc = "returned")

\* C37, amended: a quit request made while virNetServerRun runs is never
\* lost: the flag stays set until Run returns, and Run returns, the event
\* loop completing its iterations; a request made before Run is entered is
\* cleared when Run enters its loop (line 1086).
C37_RunningQuitNotLost ==
    /\ (pc = "events" /\ quit) ~> (pc = "returned")
    /\ [][(pc = "events" /\ quit) => quit']_vars
    /\ [][(pc = "idle" /\ pc' = "events") => ~quit']_vars

\* virNetServerQuit was called while a Connection was in the collection and
\* no timer was configured, and the loop returned on the flag
C37_Witness ==
    /\ pc = "returned"
    /\ why = "quit"
    /\ quitBy = "Quit"
    /\ autoShutdownTimeout = 0
    /\ nclients = 1
    /\ last = "iteration"

\* ---------------------------------------------------------------------- C34
\* C34: the Server holds one strong reference for each Connection of its
\* collection: no Connection appears twice in the collection, and as long
\* as a Connection is in the collection its reference count is at least
\* the one reference of the Server, which only the reaping pass releases,
\* so the Connection is not disposed.
C34_ServerHoldsOneReference ==
    /\ \A i, j \in 1..nclients : clients[i] = clients[j] => i = j
    /\ \A i \in 1..nclients :
          /\ client[clients[i]].refs >= 1
          /\ ~client[clients[i]].disposed

\* ---------------------------------------------------------------------- C38
\* C38: under any interleaving of virNetServerAddShutdownInhibition,
\* virNetServerRemoveShutdownInhibition and inhibit replies, the Server
\* holds an inhibit descriptor only while the inhibition counter is
\* greater than zero, at most one inhibit call is outstanding, and every
\* descriptor received is either the one held or closed: a reply that
\* finds the counter at zero is closed at once, the held descriptor is
\* closed when the counter reaches zero, and no reply overwrites a held
\* descriptor.
C38_InhibitDescriptor ==
    /\ [](ih.inhibitFd # -1 => ih.counter > 0)
    /\ [](ih.outstanding <= 1)
    /\ [](ih.callingInhibit <=> ih.outstanding = 1)
    /\ [](ih.open = IF ih.inhibitFd = -1 THEN {} ELSE {ih.inhibitFd})
    /\ [][(ih'.replies = ih.replies + 1) => ih.inhibitFd = -1]_vars
    /\ [][(ih.counter > 0 /\ ih'.counter = 0) => ih'.inhibitFd = -1]_vars

\* a held descriptor was closed when the counter reached zero, and a reply
\* that arrived after the counter had returned to zero was closed at once
C38_Witness ==
    /\ ih.zeroClosed > 0
    /\ ih.lateClosed > 0
    /\ ih.counter = 0
    /\ ih.op = "reply"

\* -------------------------------------------------------------------- locks
\* the thread that holds the lock thread t waits for, or NoOwner
LkHolder(t) ==
    IF lk.th[t].pc \in WantsServer THEN lk.srvLock
    ELSE IF lk.th[t].pc \in WantsConn THEN lk.connLock[lk.th[t].c]
    ELSE NoOwner

\* the threads of S that wait for a lock held by a thread of S
RECURSIVE LkStuck(_)
LkStuck(S) ==
    LET S2 == {t \in S : LkHolder(t) \in S}
    IN IF S2 = S THEN S ELSE LkStuck(S2)

\* the threads that wait for ever
LkDeadlocked == LkStuck({t \in LkThreads : LkHolder(t) # NoOwner})

\* C32: the Server lock is never held across a suspension point: the
\* thread in the poll of the event loop, the thread that executes a
\* handler and the thread that hands a reply to a Connection do not hold
\* it, with a pool and without, and a handler that calls a Server
\* operation does not wait for a lock its own thread holds.
C32_NoLockAcrossSuspension ==
    \A t \in LkThreads :
        /\ lk.th[t].pc \in Suspended => lk.srvLock # t
        /\ lk.th[t].pc = "srvop-enter" => lk.srvLock # t

\* C33: no interleaving of the reactor and the workers deadlocks, and the
\* locks are taken in one order: a thread that waits for the Server lock
\* holds no lock of a Connection, and a thread holds the lock of one
\* Connection at most.
C33_NoDeadlock ==
    /\ LkDeadlocked = {}
    /\ \A t \in LkThreads :
          /\ lk.th[t].pc \in WantsServer =>
                \A c \in LkConns : lk.connLock[c] # t
          /\ Cardinality({c \in LkConns : lk.connLock[c] = t}) <= 1
====
